---- MODULE Spec2Model ----
(***************************************************************************)
(* Verification model of mkaudiolibrary.                                   *)
(*                                                                         *)
(*   SpecBuffers  : src/src/buffer.rs  - Buffer, PushBuffer and            *)
(*                  CircularBuffer behind Arc<RwLock<..>>, used by several *)
(*                  threads, each through its own clone handle.            *)
(*   SpecRealtime : src/src/realtime.rs - the stream lifecycle of Realtime *)
(*                  (owner calls interleaved with the audio thread).       *)
(*   SpecConvolution : src/src/dsp.rs - Convolution::process and run.     *)
(*   SpecDelay    : src/src/dsp.rs - Delay over its CircularBuffer.        *)
(*   SpecEncoder  : src/src/audiofile.rs - save as WAV and AIFF, and the   *)
(*                  file read back by a second AudioFile.                  *)
(*   SpecChunks   : src/src/audiofile.rs - the bext, cue, LIST, acid and   *)
(*                  iXML chunks and the sizes the files declare.           *)
(*   SpecAudioFile : src/src/audiofile.rs - the sample matrix under the    *)
(*                  resizing operations and load_bytes.                    *)
(*   SpecMarkers  : src/src/audiofile.rs - add_marker, remove_marker,      *)
(*                  clear_markers and the cue points of a loaded WAV.      *)
(*   SpecCompression, SpecLimit : src/src/dsp.rs - the envelope and gain   *)
(*                  of Compression::run and Limit::process.                *)
(*   SpecScanner  : src/src/audiofile.rs - get_index_of_chunk.             *)
(*   SpecHeader   : src/src/audiofile.rs - the fmt test of read_wav.       *)
(*   SpecSamples  : src/src/audiofile.rs - the sample decoders.            *)
(*   SpecIntegers : src/src/audiofile.rs - set_uN and get_uN.              *)
(*   SpecCircular : src/src/buffer.rs - every operation of CircularBuffer  *)
(*                  and of its guards.                                     *)
(*   SpecRun      : src/src/dsp.rs - the locks run(input, output) takes.   *)
(***************************************************************************)
EXTENDS Integers, Sequences, FiniteSets, TLC

(***************************************************************************)
(* Bounds of the model.                                                    *)
(***************************************************************************)
NumThreads == 2
MaxLen == 2
MaxCircLen == 3
MaxVal == 2
MaxPushes == 3
MaxPops == 3
NumAudioThreads == 2
MaxChannels == 1
MaxFrames == 1
MaxKernel == 2
MaxCoef == 2
MaxSample == 1
MaxInput == 4
MaxBlock == 2
MaxTime == 3
MaxRate == 3
MaxFeedback == 1
MaxDelayInput == 4
MaxFileChannels == 1
MaxFileSamples == 1
MaxText == 1
MaxMarkers == 1
MaxCues == 2
MaxMarkerId == 2
MaxPosition == 1
MaxLevel == 4
MaxRuns == 2
MaxLimitInput == 4
MaxCalls == 3
MaxChunks == 2
MaxPayload == 2
MaxHeaderChannels == 2
MaxSampleInt == 8
MaxWord == 16
UsizeBits == 5

\* T::default() of the sample type (0.0 for f64)
Default == 0

\* Thread t works through its own handle; the handle of thread 1 is the one
\* the constructor returned, the others are made by clone.
Thread == 1..NumThreads
\* heap cells an Arc can point to; 0 is "no handle"
Storage == 1..NumThreads
Val == 0..MaxVal

VARIABLES
    kind,       \* the buffer type: "Buffer", "PushBuffer" or "CircularBuffer"
    inner,      \* inner[t] : the storage the handle of thread t points to (Arc), 0 when it has none
    reference,  \* reference[s] : BufferInner.reference
    buffer,     \* buffer[s] : the boxed slice (1-based here, 0-based in the source)
    index,      \* index[s] : PushBufferData.index
    read,       \* read[s] : CircularBufferData.read
    write,      \* write[s] : CircularBufferData.write
    mask,       \* mask[s] : CircularBufferData.mask
    guards,     \* guards[t] : the guard thread t holds through its handle: "none", "read", "write"
    wlog,       \* history: the last index_mut or resize of the Buffer (thread, index, value or length)
    hist,       \* history: the samples pushed since the storage was (re)initialised
    pops,       \* history: the values next() returned since the storage was (re)initialised
    pure        \* history: TRUE while only pushes, then only next() calls, were applied

dataVars == <<buffer, index, read, write, mask>>
lockVars == <<guards>>
histVars == <<wlog, hist, pops, pure>>
bufVars == <<kind, inner, reference, dataVars, lockVars, histVars>>

VARIABLES
    state,            \* StreamData.state
    output_params,    \* StreamData.output_params : 0 (None) or the number of channels
    input_params,     \* StreamData.input_params
    buffer_frames,    \* StreamData.buffer_frames
    output_buffer,    \* StreamData.output_buffer, by its length
    input_buffer,     \* StreamData.input_buffer, by its length
    callback,         \* Realtime.callback : "Some" or "None"
    running,          \* Realtime.running (AtomicBool)
    thread_handle,    \* Realtime.thread_handle : 0 for None, else the thread
    stream_mutex,     \* who holds Realtime.stream across steps: "free" or "owner"
    callback_mutex,   \* who holds Realtime.callback across steps: 0 or the audio thread
    ocall,            \* the Realtime method the owner is executing
    opc,              \* the owner's position in it
    result,           \* the last method that returned, and what it returned
    athread,          \* athread[a] : position and locals of audio thread a
    ended,            \* history: the callback asked to stop since the last successful start
    found             \* history: the stream state the owner's method found when it was entered

streamVars == <<state, output_params, input_params, buffer_frames, output_buffer, input_buffer>>
rtVars == <<streamVars, callback, running, thread_handle, stream_mutex, callback_mutex,
            ocall, opc, result, athread, ended, found>>

VARIABLES
    convolution,      \* a dsp::Convolution: kernel, its PushBuffer, and the Buffer run writes to
    delay,            \* a dsp::Delay: time, sample_rate, feedback, mix and its CircularBuffer
    compression,      \* a dsp::Compression: its parameters, envelope and coefficients
    limit,            \* a dsp::Limit: gain, ceiling, envelope and release coefficient
    runs              \* per thread, the run(input, output) call it is in: where it is, its guards

dynVars == <<compression, limit, runs>>
dspVars == <<convolution, delay, dynVars>>

VARIABLES
    audiofile,        \* an audiofile::AudioFile
    bytes,            \* the byte vector last given to load_bytes or built by a save
    outcome,          \* the last AudioFile call: what it was, whether it panicked or wrote a file
    reloaded          \* <<f>> for the AudioFile f that has just loaded the bytes of a save, else <<>>

codecVars == <<audiofile, bytes, outcome, reloaded>>

vars == <<bufVars, rtVars, dspVars, codecVars>>

Zeros(n) == [i \in 1..n |-> Default]

NoLog == [op |-> "new", t |-> 0, i |-> 0, x |-> 0]

RECURSIVE BitAnd(_, _)
\* a & b on usize
BitAnd(a, b) ==
    IF a = 0 \/ b = 0 THEN 0
    ELSE (a % 2) * (b % 2) + 2 * BitAnd(a \div 2, b \div 2)

RECURSIVE NextPow2From(_, _)
NextPow2From(p, n) == IF p >= n THEN p ELSE NextPow2From(2 * p, n)

\* usize::next_power_of_two
next_power_of_two(n) == NextPow2From(1, n)

Max(a, b) == IF a >= b THEN a ELSE b
Min(a, b) == IF a <= b THEN a ELSE b

\* all sequences over S of length 0..n
SeqsUpTo(S, n) == UNION {[1..k -> S] : k \in 0..n}

\* no Convolution, Delay or AudioFile has been made
NoConvolution == [kernel |-> <<>>, buffer |-> <<>>, index |-> 0, output |-> <<>>,
                  xs |-> <<>>, ys |-> <<>>]
NoDelay == [time |-> 0, sample_rate |-> 0, feedback |-> 0, mix |-> 0,
            buffer |-> <<>>, read |-> 0, write |-> 0, mask |-> 0,
            xs |-> <<>>, ds |-> <<>>, ys |-> <<>>]
InitNoDynamics == compression = 0 /\ limit = 0 /\ runs = <<>>
InitNoDsp == convolution = NoConvolution /\ delay = NoDelay /\ InitNoDynamics
InitNoCodec == audiofile = 0 /\ bytes = <<>> /\ outcome = 0 /\ reloaded = <<>>

(***************************************************************************)
(* std::sync::RwLock as the buffers use it: the lock of storage s is held  *)
(* by the guards taken through any handle that points to s.  A thread      *)
(* holds at most one guard of the buffer at a time (taking a second one    *)
(* while holding the first may deadlock or panic in std).                  *)
(***************************************************************************)
ReadGuards(s) == {t \in Thread : inner[t] = s /\ guards[t] = "read"}
WriteGuards(s) == {t \in Thread : inner[t] = s /\ guards[t] = "write"}

WriteHeld(s) == WriteGuards(s) # {}
ReadHeld(s) == ReadGuards(s) # {}
Unlocked(s) == ~WriteHeld(s) /\ ~ReadHeld(s)

Live(t) == inner[t] # 0

(***************************************************************************)
(* Constructors.                                                           *)
(***************************************************************************)
Buffer_new(len) == Zeros(len)

Buffer_from_slice(slice) == slice

PushBuffer_new(len) == [buffer |-> Zeros(len), index |-> 0]

CircularBuffer_new(len) ==
    LET actual_len == Max(next_power_of_two(len), 1)
    IN  [buffer |-> Zeros(actual_len), read |-> 0, write |-> 0, mask |-> actual_len - 1]

Slices == UNION {[1..n -> Val] : n \in 0..MaxLen}

InitLock ==
    /\ inner = [t \in Thread |-> IF t = 1 THEN 1 ELSE 0]
    /\ reference = [s \in Storage |-> IF s = 1 THEN 1 ELSE 0]
    /\ guards = [t \in Thread |-> "none"]
    /\ wlog = NoLog
    /\ hist = <<>>
    /\ pops = <<>>
    /\ pure = TRUE

InitBuffer ==
    /\ kind = "Buffer"
    /\ \E slice \in Slices :
         buffer = [s \in Storage |-> IF s = 1 THEN Buffer_from_slice(slice) ELSE <<>>]
    /\ index = [s \in Storage |-> 0]
    /\ read = [s \in Storage |-> 0]
    /\ write = [s \in Storage |-> 0]
    /\ mask = [s \in Storage |-> 0]

InitPushBuffer ==
    /\ kind = "PushBuffer"
    /\ \E len \in 0..MaxLen :
         /\ buffer = [s \in Storage |-> IF s = 1 THEN PushBuffer_new(len).buffer ELSE <<>>]
         /\ index = [s \in Storage |-> IF s = 1 THEN PushBuffer_new(len).index ELSE 0]
    /\ read = [s \in Storage |-> 0]
    /\ write = [s \in Storage |-> 0]
    /\ mask = [s \in Storage |-> 0]

InitCircularBuffer ==
    /\ kind = "CircularBuffer"
    /\ \E len \in 0..MaxCircLen :
         /\ buffer = [s \in Storage |-> IF s = 1 THEN CircularBuffer_new(len).buffer ELSE <<>>]
         /\ read = [s \in Storage |-> IF s = 1 THEN CircularBuffer_new(len).read ELSE 0]
         /\ write = [s \in Storage |-> IF s = 1 THEN CircularBuffer_new(len).write ELSE 0]
         /\ mask = [s \in Storage |-> IF s = 1 THEN CircularBuffer_new(len).mask ELSE 0]
    /\ index = [s \in Storage |-> 0]

InitBuffers ==
    /\ InitLock
    /\ (InitBuffer \/ InitPushBuffer \/ InitCircularBuffer)

(***************************************************************************)
(* Locking: read / try_read / write / try_write are the same code in the   *)
(* three buffer types.  A blocking call returns when the lock can be       *)
(* granted (the caller is parked until then: the action is not enabled);   *)
(* a try call returns at once.                                             *)
(***************************************************************************)
\* Buffer::read, PushBuffer::read, CircularBuffer::read
Handle_read(t) ==
    /\ Live(t)
    /\ guards[t] = "none"
    /\ ~WriteHeld(inner[t])
    /\ guards' = [guards EXCEPT ![t] = "read"]
    /\ UNCHANGED <<kind, inner, reference, dataVars, histVars, rtVars, dspVars, codecVars>>

\* Buffer::try_read ... : RwLock::try_read().ok().  It fails when a write
\* guard is held; std lets it fail too when a writer is queued, so a
\* failure without a write guard is possible.
Handle_try_read(t) ==
    /\ Live(t)
    /\ guards[t] = "none"
    /\ \E ok \in BOOLEAN :
         /\ WriteHeld(inner[t]) => ~ok
         /\ guards' = IF ok THEN [guards EXCEPT ![t] = "read"] ELSE guards
    /\ UNCHANGED <<kind, inner, reference, dataVars, histVars, rtVars, dspVars, codecVars>>

\* Buffer::write, PushBuffer::write, CircularBuffer::write
Handle_write(t) ==
    /\ Live(t)
    /\ guards[t] = "none"
    /\ Unlocked(inner[t])
    /\ guards' = [guards EXCEPT ![t] = "write"]
    /\ UNCHANGED <<kind, inner, reference, dataVars, histVars, rtVars, dspVars, codecVars>>

\* try_write that hands out the guard whatever the lock's state
Handle_try_write_unchecked(t) ==
    /\ Live(t)
    /\ guards[t] = "none"
    /\ guards' = [guards EXCEPT ![t] = "write"]
    /\ UNCHANGED <<kind, inner, reference, dataVars, histVars, rtVars, dspVars, codecVars>>

\* Buffer::try_write ... : RwLock::try_write().ok()
Handle_try_write(t) ==
    /\ Live(t)
    /\ guards[t] = "none"
    /\ guards' = IF Unlocked(inner[t]) THEN [guards EXCEPT ![t] = "write"] ELSE guards
    /\ UNCHANGED <<kind, inner, reference, dataVars, histVars, rtVars, dspVars, codecVars>>

\* the read guard goes out of scope
ReadGuard_drop(t) ==
    /\ guards[t] = "read"
    /\ guards' = [guards EXCEPT ![t] = "none"]
    /\ UNCHANGED <<kind, inner, reference, dataVars, histVars, rtVars, dspVars, codecVars>>

\* the write guard goes out of scope
WriteGuard_drop(t) ==
    /\ guards[t] = "write"
    /\ guards' = [guards EXCEPT ![t] = "none"]
    /\ UNCHANGED <<kind, inner, reference, dataVars, histVars, rtVars, dspVars, codecVars>>

\* a clone that copies the data into a storage of its own
Handle_clone_deep(t, u) ==
    /\ Live(t)
    /\ ~Live(u)
    /\ LET fresh == CHOOSE s \in Storage : \A v \in Thread : inner[v] # s
       IN  /\ inner' = [inner EXCEPT ![u] = fresh]
           /\ reference' = [reference EXCEPT ![fresh] = 1]
           /\ buffer' = [buffer EXCEPT ![fresh] = buffer[inner[t]]]
           /\ index' = [index EXCEPT ![fresh] = index[inner[t]]]
           /\ read' = [read EXCEPT ![fresh] = read[inner[t]]]
           /\ write' = [write EXCEPT ![fresh] = write[inner[t]]]
           /\ mask' = [mask EXCEPT ![fresh] = mask[inner[t]]]
    /\ UNCHANGED <<kind, lockVars, histVars, rtVars, dspVars, codecVars>>

\* impl Clone : thread t clones its handle and hands the clone to thread u
Handle_clone(t, u) ==
    /\ Live(t)
    /\ ~Live(u)
    /\ reference' = IF kind = "Buffer"
                    THEN [reference EXCEPT ![inner[t]] = @ + 1]
                    ELSE reference
    /\ inner' = [inner EXCEPT ![u] = inner[t]]
    /\ UNCHANGED <<kind, dataVars, lockVars, histVars, rtVars, dspVars, codecVars>>

(***************************************************************************)
(* Buffer                                                                  *)
(***************************************************************************)
\* Deref of BufferReadGuard, guard[i]
BufferReadGuard_index(t, i) == buffer[inner[t]][i + 1]

\* Buffer::len
Buffer_len(t) == Len(buffer[inner[t]])

\* DerefMut of BufferWriteGuard, guard[i] = x
BufferWriteGuard_index_mut(t, i, x) ==
    /\ kind = "Buffer"
    /\ guards[t] = "write"
    /\ i < Len(buffer[inner[t]])
    /\ buffer' = [buffer EXCEPT ![inner[t]][i + 1] = x]
    /\ wlog' = [op |-> "index_mut", t |-> t, i |-> i, x |-> x]
    /\ UNCHANGED <<kind, inner, reference, index, read, write, mask, lockVars,
                   hist, pops, pure, rtVars, dspVars, codecVars>>

\* a resize that keeps the old samples, as Vec::resize would
Buffer_resize_keeping(t, len) ==
    /\ kind = "Buffer"
    /\ Live(t)
    /\ Unlocked(inner[t])
    /\ buffer' = [buffer EXCEPT ![inner[t]] =
                     [i \in 1..len |-> IF i <= Len(@) THEN @[i] ELSE Default]]
    /\ wlog' = [op |-> "resize", t |-> t, i |-> 0, x |-> len]
    /\ UNCHANGED <<kind, inner, reference, index, read, write, mask, lockVars,
                   hist, pops, pure, rtVars, dspVars, codecVars>>

\* Buffer::resize : takes the write lock for the whole body
Buffer_resize(t, len) ==
    /\ kind = "Buffer"
    /\ Live(t)
    /\ Unlocked(inner[t])
    /\ buffer' = [buffer EXCEPT ![inner[t]] = Zeros(len)]
    /\ wlog' = [op |-> "resize", t |-> t, i |-> 0, x |-> len]
    /\ UNCHANGED <<kind, inner, reference, index, read, write, mask, lockVars,
                   hist, pops, pure, rtVars, dspVars, codecVars>>

(***************************************************************************)
(* PushBuffer                                                              *)
(***************************************************************************)
Record(seq, v) == IF pure THEN Append(seq, v) ELSE seq

\* PushBuffer::push : takes the write lock for the whole body
PushBuffer_push(t, value) ==
    /\ kind = "PushBuffer"
    /\ Live(t)
    /\ Unlocked(inner[t])
    /\ pure => Len(hist) < MaxPushes
    /\ LET s == inner[t]
           len == Len(buffer[s])
       IN  IF len = 0
           THEN UNCHANGED <<buffer, index>>
           ELSE IF index[s] < len
                THEN /\ buffer' = [buffer EXCEPT ![s][index[s] + 1] = value]
                     /\ index' = [index EXCEPT ![s] = @ + 1]
                ELSE /\ buffer' = [buffer EXCEPT ![s] =
                                     [i \in 1..len |-> IF i < len THEN buffer[s][i + 1] ELSE value]]
                     /\ UNCHANGED index
    /\ hist' = Record(hist, value)
    /\ UNCHANGED <<kind, inner, reference, read, write, mask, lockVars,
                   wlog, pops, pure, rtVars, dspVars, codecVars>>

\* a push that overwrites the newest sample of a full window without shifting
PushBufferWriteGuard_push_noshift(t, value) ==
    /\ kind = "PushBuffer"
    /\ guards[t] = "write"
    /\ pure => Len(hist) < MaxPushes
    /\ LET s == inner[t]
           len == Len(buffer[s])
       IN  IF len = 0
           THEN UNCHANGED <<buffer, index>>
           ELSE IF index[s] < len
                THEN /\ buffer' = [buffer EXCEPT ![s][index[s] + 1] = value]
                     /\ index' = [index EXCEPT ![s] = @ + 1]
                ELSE /\ buffer' = [buffer EXCEPT ![s][len] = value]
                     /\ UNCHANGED index
    /\ hist' = Record(hist, value)
    /\ UNCHANGED <<kind, inner, reference, read, write, mask, lockVars,
                   wlog, pops, pure, rtVars, dspVars, codecVars>>

\* PushBufferWriteGuard::push
PushBufferWriteGuard_push(t, value) ==
    /\ kind = "PushBuffer"
    /\ guards[t] = "write"
    /\ pure => Len(hist) < MaxPushes
    /\ LET s == inner[t]
           len == Len(buffer[s])
       IN  IF len = 0
           THEN UNCHANGED <<buffer, index>>
           ELSE IF index[s] < len
                THEN /\ buffer' = [buffer EXCEPT ![s][index[s] + 1] = value]
                     /\ index' = [index EXCEPT ![s] = @ + 1]
                ELSE /\ buffer' = [buffer EXCEPT ![s] =
                                     [i \in 1..len |-> IF i < len THEN buffer[s][i + 1] ELSE value]]
                     /\ UNCHANGED index
    /\ hist' = Record(hist, value)
    /\ UNCHANGED <<kind, inner, reference, read, write, mask, lockVars,
                   wlog, pops, pure, rtVars, dspVars, codecVars>>

\* PushBuffer::get_index
PushBuffer_get_index(t) == index[inner[t]]

\* PushBuffer::set_index
PushBuffer_set_index(t, idx) ==
    /\ kind = "PushBuffer"
    /\ Live(t)
    /\ Unlocked(inner[t])
    /\ index' = [index EXCEPT ![inner[t]] = Min(idx, Len(buffer[inner[t]]))]
    /\ pure' = FALSE
    /\ hist' = <<>>
    /\ UNCHANGED <<kind, inner, reference, buffer, read, write, mask, lockVars,
                   wlog, pops, rtVars, dspVars, codecVars>>

\* PushBuffer::resize : the storage is as PushBuffer::new(len) leaves it
PushBuffer_resize(t, len) ==
    /\ kind = "PushBuffer"
    /\ Live(t)
    /\ Unlocked(inner[t])
    /\ buffer' = [buffer EXCEPT ![inner[t]] = Zeros(len)]
    /\ index' = [index EXCEPT ![inner[t]] = 0]
    /\ pure' = TRUE
    /\ hist' = <<>>
    /\ UNCHANGED <<kind, inner, reference, read, write, mask, lockVars,
                   wlog, pops, rtVars, dspVars, codecVars>>

(***************************************************************************)
(* CircularBuffer                                                          *)
(***************************************************************************)
\* CircularBuffer::push : takes the write lock for the whole body
CircularBuffer_push(t, value) ==
    /\ kind = "CircularBuffer"
    /\ Live(t)
    /\ Unlocked(inner[t])
    /\ (pure /\ pops = <<>>) => Len(hist) < MaxPushes
    /\ LET s == inner[t]
           idx == write[s]
       IN  /\ buffer' = [buffer EXCEPT ![s][idx + 1] = value]
           /\ write' = [write EXCEPT ![s] = BitAnd(write[s] + 1, mask[s])]
    /\ IF pure /\ pops = <<>>
       THEN hist' = Append(hist, value) /\ UNCHANGED <<pops, pure>>
       ELSE hist' = <<>> /\ pops' = <<>> /\ pure' = FALSE
    /\ UNCHANGED <<kind, inner, reference, index, read, mask, lockVars,
                   wlog, rtVars, dspVars, codecVars>>

\* CircularBufferWriteGuard::push
CircularBufferWriteGuard_push(t, value) ==
    /\ kind = "CircularBuffer"
    /\ guards[t] = "write"
    /\ (pure /\ pops = <<>>) => Len(hist) < MaxPushes
    /\ LET s == inner[t]
           idx == write[s]
       IN  /\ buffer' = [buffer EXCEPT ![s][idx + 1] = value]
           /\ write' = [write EXCEPT ![s] = BitAnd(write[s] + 1, mask[s])]
    /\ IF pure /\ pops = <<>>
       THEN hist' = Append(hist, value) /\ UNCHANGED <<pops, pure>>
       ELSE hist' = <<>> /\ pops' = <<>> /\ pure' = FALSE
    /\ UNCHANGED <<kind, inner, reference, index, read, mask, lockVars,
                   wlog, rtVars, dspVars, codecVars>>

\* a next that returns the sample without advancing the read pointer
CircularBuffer_next_stuck(t) ==
    /\ kind = "CircularBuffer"
    /\ Live(t)
    /\ Unlocked(inner[t])
    /\ pure => Len(pops) < MaxPops
    /\ pops' = Record(pops, buffer[inner[t]][read[inner[t]] + 1])
    /\ UNCHANGED <<kind, inner, reference, buffer, index, read, write, mask, lockVars,
                   wlog, hist, pure, rtVars, dspVars, codecVars>>

\* CircularBuffer::next : takes the write lock for the whole body
CircularBuffer_next(t) ==
    /\ kind = "CircularBuffer"
    /\ Live(t)
    /\ Unlocked(inner[t])
    /\ pure => Len(pops) < MaxPops
    /\ LET s == inner[t]
           value == buffer[s][read[s] + 1]
       IN  /\ read' = [read EXCEPT ![s] = BitAnd(read[s] + 1, mask[s])]
           /\ pops' = Record(pops, value)
    /\ UNCHANGED <<kind, inner, reference, buffer, index, write, mask, lockVars,
                   wlog, hist, pure, rtVars, dspVars, codecVars>>

\* CircularBufferWriteGuard::next
CircularBufferWriteGuard_next(t) ==
    /\ kind = "CircularBuffer"
    /\ guards[t] = "write"
    /\ pure => Len(pops) < MaxPops
    /\ LET s == inner[t]
           value == buffer[s][read[s] + 1]
       IN  /\ read' = [read EXCEPT ![s] = BitAnd(read[s] + 1, mask[s])]
           /\ pops' = Record(pops, value)
    /\ UNCHANGED <<kind, inner, reference, buffer, index, write, mask, lockVars,
                   wlog, hist, pure, rtVars, dspVars, codecVars>>

\* CircularBuffer::peek
CircularBuffer_peek(t) == buffer[inner[t]][read[inner[t]] + 1]

\* CircularBuffer::capacity
CircularBuffer_capacity(t) == Len(buffer[inner[t]])

\* CircularBuffer::clear : the storage is empty again
CircularBuffer_clear(t) ==
    /\ kind = "CircularBuffer"
    /\ Live(t)
    /\ Unlocked(inner[t])
    /\ buffer' = [buffer EXCEPT ![inner[t]] = Zeros(Len(@))]
    /\ read' = [read EXCEPT ![inner[t]] = 0]
    /\ write' = [write EXCEPT ![inner[t]] = 0]
    /\ hist' = <<>> /\ pops' = <<>> /\ pure' = TRUE
    /\ UNCHANGED <<kind, inner, reference, index, mask, lockVars, wlog, rtVars, dspVars, codecVars>>

\* CircularBuffer::resize : the storage is as CircularBuffer::new(len) leaves it
CircularBuffer_resize(t, len) ==
    /\ kind = "CircularBuffer"
    /\ Live(t)
    /\ Unlocked(inner[t])
    /\ LET actual_len == Max(next_power_of_two(len), 1)
       IN  /\ buffer' = [buffer EXCEPT ![inner[t]] = Zeros(actual_len)]
           /\ read' = [read EXCEPT ![inner[t]] = 0]
           /\ write' = [write EXCEPT ![inner[t]] = 0]
           /\ mask' = [mask EXCEPT ![inner[t]] = actual_len - 1]
    /\ hist' = <<>> /\ pops' = <<>> /\ pure' = TRUE
    /\ UNCHANGED <<kind, inner, reference, index, lockVars, wlog, rtVars, dspVars, codecVars>>

(***************************************************************************)
(* Realtime: the stream lifecycle.  The owner holds the Realtime by        *)
(* &mut self, so its methods run one after another; they interleave with   *)
(* the audio threads that start_stream spawned.  Every block that locks    *)
(* `stream` or `callback` and releases it again is one step; a mutex that  *)
(* stays locked across steps is recorded in stream_mutex / callback_mutex. *)
(* The sample contents, stream_time and sample_rate play no part in the    *)
(* lifecycle and are left out; buffers are kept by their length.           *)
(***************************************************************************)
AudioThread == 1..NumAudioThreads
\* Option<&StreamParameters> by its channel count; 0 stands for None
Params == 0..MaxChannels
StreamState == {"Closed", "Stopped", "Running"}

\* Option<&StreamParameters>.map(|p| p.num_channels).unwrap_or(0)
Channels(p) == p

NoResult == [call |-> "new", ret |-> "Ok", pre |-> "Closed", n |-> 0]
NoThread == [pc |-> "none", frames |-> 0, out |-> 0, res |-> 0]

\* a method returns `ret`; `pre` is the stream state it found
Return(call, ret, pre) == [call |-> call, ret |-> ret, pre |-> pre, n |-> 1 - result.n]

\* the thread has no statement left to run; a join on it returns
Finished(a) == athread[a].pc \in {"none", "done", "panicked"}

\* Realtime::new, StreamData::default
InitRealtime ==
    /\ state = "Closed"
    /\ output_params = 0
    /\ input_params = 0
    /\ buffer_frames = 256
    /\ output_buffer = 0
    /\ input_buffer = 0
    /\ callback = "None"
    /\ running = FALSE
    /\ thread_handle = 0
    /\ stream_mutex = "free"
    /\ callback_mutex = 0
    /\ ocall = "none"
    /\ opc = "idle"
    /\ result = NoResult
    /\ athread = [a \in AudioThread |-> NoThread]
    /\ ended = FALSE
    /\ found = "Closed"

\* open_stream that stores the parameters before it looks at the state
open_stream_store_first(output, input, frames) ==
    /\ opc = "idle"
    /\ IF output = 0 /\ input = 0
       THEN /\ result' = Return("open_stream", "InvalidParameter", state)
            /\ UNCHANGED <<streamVars, stream_mutex, ocall, opc>>
       ELSE /\ stream_mutex = "free"
            /\ output_params' = output
            /\ input_params' = input
            /\ buffer_frames' = frames
            /\ IF state # "Closed"
               THEN /\ result' = Return("open_stream", "InvalidUse", state)
                    /\ UNCHANGED <<state, output_buffer, input_buffer, stream_mutex, ocall, opc>>
               ELSE /\ state' = "Stopped"
                    /\ output_buffer' = frames * Channels(output)
                    /\ input_buffer' = frames * Channels(input)
                    /\ stream_mutex' = "owner"
                    /\ ocall' = "open_stream"
                    /\ opc' = "open_store_callback"
                    /\ UNCHANGED result
    /\ found' = state
    /\ UNCHANGED <<callback, running, thread_handle, callback_mutex, athread, ended, bufVars, dspVars, codecVars>>

\* Realtime::open_stream, up to the point where the callback is stored
open_stream(output, input, frames) ==
    /\ opc = "idle"
    /\ IF output = 0 /\ input = 0
       THEN /\ result' = Return("open_stream", "InvalidParameter", state)
            /\ UNCHANGED <<streamVars, stream_mutex, ocall, opc>>
       ELSE /\ stream_mutex = "free"
            /\ IF state # "Closed"
               THEN /\ result' = Return("open_stream", "InvalidUse", state)
                    /\ UNCHANGED <<streamVars, stream_mutex, ocall, opc>>
               ELSE /\ output_params' = output
                    /\ input_params' = input
                    /\ buffer_frames' = frames
                    /\ state' = "Stopped"
                    /\ output_buffer' = frames * Channels(output)
                    /\ input_buffer' = frames * Channels(input)
                    /\ stream_mutex' = "owner"
                    /\ ocall' = "open_stream"
                    /\ opc' = "open_store_callback"
                    /\ UNCHANGED result
    /\ found' = state
    /\ UNCHANGED <<callback, running, thread_handle, callback_mutex, athread, ended, bufVars, dspVars, codecVars>>

\* Realtime::open_stream: *self.callback.lock() = Some(callback); Ok(buffer_frames)
open_stream_store_callback ==
    /\ opc = "open_store_callback"
    /\ callback_mutex = 0
    /\ callback' = "Some"
    /\ stream_mutex' = "free"
    /\ result' = Return("open_stream", "Ok", found)
    /\ ocall' = "none"
    /\ opc' = "idle"
    /\ UNCHANGED <<streamVars, running, thread_handle, callback_mutex, athread, ended, found, bufVars, dspVars, codecVars>>

\* start_stream without the check for a closed stream
start_stream_unchecked ==
    /\ opc = "idle"
    /\ stream_mutex = "free"
    /\ IF state = "Running"
       THEN /\ result' = Return("start_stream", "InvalidUse", state)
            /\ UNCHANGED <<state, ocall, opc, ended>>
       ELSE /\ state' = "Running"
            /\ ocall' = "start_stream"
            /\ opc' = "start_store"
            /\ ended' = FALSE
            /\ UNCHANGED result
    /\ UNCHANGED <<output_params, input_params, buffer_frames, output_buffer, input_buffer,
                   callback, running, thread_handle, stream_mutex, callback_mutex,
                   athread, bufVars, dspVars, codecVars>>
    /\ found' = state

\* Realtime::start_stream, the block that checks and sets the state
start_stream ==
    /\ opc = "idle"
    /\ stream_mutex = "free"
    /\ IF state = "Closed" \/ state = "Running"
       THEN /\ result' = Return("start_stream", "InvalidUse", state)
            /\ UNCHANGED <<state, ocall, opc, ended>>
       ELSE /\ state' = "Running"
            /\ ocall' = "start_stream"
            /\ opc' = "start_store"
            /\ ended' = FALSE
            /\ UNCHANGED result
    /\ UNCHANGED <<output_params, input_params, buffer_frames, output_buffer, input_buffer,
                   callback, running, thread_handle, stream_mutex, callback_mutex,
                   athread, bufVars, dspVars, codecVars>>
    /\ found' = state

\* Realtime::start_stream: self.running.store(true)
start_stream_store ==
    /\ opc = "start_store"
    /\ running' = TRUE
    /\ opc' = "start_spawn"
    /\ UNCHANGED <<streamVars, callback, thread_handle, stream_mutex, callback_mutex,
                   ocall, result, athread, ended, found, bufVars, dspVars, codecVars>>

\* Realtime::start_stream: self.thread_handle = Some(thread::spawn(..)); Ok(())
start_stream_spawn ==
    /\ opc = "start_spawn"
    /\ \E a \in AudioThread :
         /\ Finished(a)
         /\ \A b \in AudioThread : Finished(b) => a <= b
         /\ athread' = [athread EXCEPT ![a] = [NoThread EXCEPT !.pc = "init"]]
         /\ thread_handle' = a
    /\ result' = Return("start_stream", "Ok", found)
    /\ ocall' = "none"
    /\ opc' = "idle"
    /\ UNCHANGED <<streamVars, callback, running, stream_mutex, callback_mutex, ended, found, bufVars, dspVars, codecVars>>

\* the first block of stop_stream, for the caller `call`
StopCheck(call) ==
    /\ stream_mutex = "free"
    /\ IF state # "Running"
       THEN IF call \in {"stop_stream", "abort_stream"}
            THEN /\ result' = Return(call, "InvalidUse", state)
                 /\ ocall' = "none"
                 /\ opc' = "idle"
            ELSE /\ opc' = "close_mark"
                 /\ ocall' = call
                 /\ UNCHANGED result
       ELSE /\ opc' = "stop_store"
            /\ ocall' = call
            /\ UNCHANGED result
    /\ UNCHANGED <<streamVars, callback, running, thread_handle, stream_mutex, callback_mutex,
                   athread, ended, bufVars, dspVars, codecVars>>

\* Realtime::stop_stream, and Realtime::abort_stream which only calls it
stop_stream(call) ==
    /\ opc = "idle"
    /\ found' = state
    /\ StopCheck(call)

\* Realtime::stop_stream: self.running.store(false)
stop_stream_store ==
    /\ opc = "stop_store"
    /\ running' = FALSE
    /\ opc' = "stop_join"
    /\ UNCHANGED <<streamVars, callback, thread_handle, stream_mutex, callback_mutex,
                   ocall, result, athread, ended, found, bufVars, dspVars, codecVars>>

\* stop_stream that drops the handle instead of joining the thread
stop_stream_detach ==
    /\ opc = "stop_join"
    /\ thread_handle' = 0
    /\ opc' = "stop_mark"
    /\ UNCHANGED <<streamVars, callback, running, stream_mutex, callback_mutex,
                   ocall, result, athread, ended, found, bufVars, dspVars, codecVars>>

\* Realtime::stop_stream: if let Some(handle) = self.thread_handle.take() { handle.join() }
stop_stream_join ==
    /\ opc = "stop_join"
    /\ thread_handle # 0 => Finished(thread_handle)
    /\ thread_handle' = 0
    /\ opc' = "stop_mark"
    /\ UNCHANGED <<streamVars, callback, running, stream_mutex, callback_mutex,
                   ocall, result, athread, ended, found, bufVars, dspVars, codecVars>>

\* Realtime::stop_stream: stream.state = Stopped; Ok(())
stop_stream_mark ==
    /\ opc = "stop_mark"
    /\ stream_mutex = "free"
    /\ state' = "Stopped"
    /\ IF ocall \in {"stop_stream", "abort_stream"}
       THEN /\ result' = Return(ocall, "Ok", found)
            /\ ocall' = "none"
            /\ opc' = "idle"
       ELSE /\ opc' = "close_mark"
            /\ UNCHANGED <<result, ocall>>
    /\ UNCHANGED <<output_params, input_params, buffer_frames, output_buffer, input_buffer,
                   callback, running, thread_handle, stream_mutex, callback_mutex,
                   athread, ended, found, bufVars, dspVars, codecVars>>

\* close_stream that does not stop a running stream first
CloseBegin_no_stop(call) ==
    /\ stream_mutex = "free"
    /\ ocall' = call
    /\ opc' = "close_mark"
    /\ UNCHANGED <<streamVars, callback, running, thread_handle, stream_mutex, callback_mutex,
                   result, athread, ended, bufVars, dspVars, codecVars>>

\* Realtime::close_stream: if self.is_stream_running() { .. }
CloseBegin(call) ==
    /\ stream_mutex = "free"
    /\ ocall' = call
    /\ opc' = IF state = "Running" THEN "close_stop" ELSE "close_mark"
    /\ UNCHANGED <<streamVars, callback, running, thread_handle, stream_mutex, callback_mutex,
                   result, athread, ended, bufVars, dspVars, codecVars>>

\* Realtime::close_stream
close_stream ==
    /\ opc = "idle"
    /\ found' = state
    /\ CloseBegin("close_stream")

\* Realtime::close_stream: let _ = self.stop_stream()
close_stream_stop ==
    /\ opc = "close_stop"
    /\ StopCheck(ocall)
    /\ UNCHANGED found

\* Realtime::close_stream: state = Closed and the buffers cleared
close_stream_mark ==
    /\ opc = "close_mark"
    /\ stream_mutex = "free"
    /\ state' = "Closed"
    /\ output_buffer' = 0
    /\ input_buffer' = 0
    /\ stream_mutex' = "owner"
    /\ opc' = "close_clear_callback"
    /\ UNCHANGED <<output_params, input_params, buffer_frames, callback, running,
                   thread_handle, callback_mutex, ocall, result, athread, ended, found, bufVars, dspVars, codecVars>>

\* Realtime::close_stream: *self.callback.lock() = None
close_stream_clear_callback ==
    /\ opc = "close_clear_callback"
    /\ callback_mutex = 0
    /\ callback' = "None"
    /\ stream_mutex' = "free"
    /\ result' = Return(ocall, "Ok", found)
    /\ opc' = IF ocall = "drop" THEN "dropped" ELSE "idle"
    /\ ocall' = "none"
    /\ UNCHANGED <<streamVars, running, thread_handle, callback_mutex, athread, ended, found, bufVars, dspVars, codecVars>>

\* impl Drop for Realtime: if self.is_stream_open() { self.close_stream() }
drop ==
    /\ opc = "idle"
    /\ stream_mutex = "free"
    /\ IF state # "Closed"
       THEN /\ ocall' = "drop"
            /\ opc' = "drop_close"
            /\ UNCHANGED result
       ELSE /\ result' = Return("drop", "Ok", state)
            /\ opc' = "dropped"
            /\ UNCHANGED ocall
    /\ UNCHANGED <<streamVars, callback, running, thread_handle, stream_mutex, callback_mutex,
                   athread, ended, bufVars, dspVars, codecVars>>
    /\ found' = state

\* impl Drop for Realtime: self.close_stream()
drop_close_stream ==
    /\ opc = "drop_close"
    /\ CloseBegin("drop")
    /\ UNCHANGED found

(***************************************************************************)
(* Realtime::audio_thread                                                  *)
(***************************************************************************)
Step(a, pc) == [athread EXCEPT ![a].pc = pc]

\* (s.sample_rate, s.buffer_frames) read under the stream lock
audio_thread_init(a) ==
    /\ athread[a].pc = "init"
    /\ stream_mutex = "free"
    /\ athread' = [athread EXCEPT ![a].pc = "loop", ![a].frames = buffer_frames]
    /\ UNCHANGED <<streamVars, callback, running, thread_handle, stream_mutex, callback_mutex,
                   ocall, opc, result, ended, found, bufVars, dspVars, codecVars>>

\* while running.load(Ordering::SeqCst)
audio_thread_loop(a) ==
    /\ athread[a].pc = "loop"
    /\ athread' = Step(a, IF running THEN "prepare" ELSE "mark")
    /\ UNCHANGED <<streamVars, callback, running, thread_handle, stream_mutex, callback_mutex,
                   ocall, opc, result, ended, found, bufVars, dspVars, codecVars>>

\* the buffers are cloned under the stream lock
audio_thread_prepare(a) ==
    /\ athread[a].pc = "prepare"
    /\ stream_mutex = "free"
    /\ athread' = [athread EXCEPT ![a].pc = "lock_callback", ![a].out = output_buffer]
    /\ UNCHANGED <<streamVars, callback, running, thread_handle, stream_mutex, callback_mutex,
                   ocall, opc, result, ended, found, bufVars, dspVars, codecVars>>

\* callback.lock(); the user callback is entered, or 0 is the result when there is none
audio_thread_callback_enter(a) ==
    /\ athread[a].pc = "lock_callback"
    /\ callback_mutex = 0
    /\ IF callback = "Some"
       THEN /\ callback_mutex' = a
            /\ athread' = Step(a, "in_callback")
       ELSE /\ athread' = [athread EXCEPT ![a].pc = "copy", ![a].res = 0]
            /\ UNCHANGED callback_mutex
    /\ UNCHANGED <<streamVars, callback, running, thread_handle, stream_mutex,
                   ocall, opc, result, ended, found, bufVars, dspVars, codecVars>>

\* the user callback returns `code`
audio_thread_callback_return(a, code) ==
    /\ athread[a].pc = "in_callback"
    /\ athread' = [athread EXCEPT ![a].pc = "copy", ![a].res = code]
    /\ callback_mutex' = 0
    /\ ended' = (ended \/ code \in {1, 2})
    /\ UNCHANGED <<streamVars, callback, running, thread_handle, stream_mutex,
                   ocall, opc, result, found, bufVars, dspVars, codecVars>>

\* s.output_buffer.copy_from_slice(&output_buffer) panics on a length mismatch
audio_thread_copy(a) ==
    /\ athread[a].pc = "copy"
    /\ stream_mutex = "free"
    /\ athread' = Step(a, IF athread[a].out = output_buffer THEN "handle" ELSE "panicked")
    /\ UNCHANGED <<streamVars, callback, running, thread_handle, stream_mutex, callback_mutex,
                   ocall, opc, result, ended, found, bufVars, dspVars, codecVars>>

\* a thread that gives up on a drain-stop (1) only
audio_thread_handle_abort_ignored(a) ==
    /\ athread[a].pc = "handle"
    /\ IF athread[a].res = 1
       THEN /\ running' = FALSE
            /\ athread' = Step(a, "mark")
       ELSE /\ athread' = Step(a, "loop")
            /\ UNCHANGED running
    /\ UNCHANGED <<streamVars, callback, thread_handle, stream_mutex, callback_mutex,
                   ocall, opc, result, ended, found, bufVars, dspVars, codecVars>>

\* match result { 1 | 2 => { running.store(false); break } _ => {} }
audio_thread_handle(a) ==
    /\ athread[a].pc = "handle"
    /\ IF athread[a].res \in {1, 2}
       THEN /\ running' = FALSE
            /\ athread' = Step(a, "mark")
       ELSE /\ athread' = Step(a, "loop")
            /\ UNCHANGED running
    /\ UNCHANGED <<streamVars, callback, thread_handle, stream_mutex, callback_mutex,
                   ocall, opc, result, ended, found, bufVars, dspVars, codecVars>>

\* s.state = StreamState::Stopped, the thread's last statement; its locals are
\* dropped, only the last callback result is kept on record
audio_thread_mark(a) ==
    /\ athread[a].pc = "mark"
    /\ stream_mutex = "free"
    /\ state' = "Stopped"
    /\ athread' = [athread EXCEPT ![a] = [NoThread EXCEPT !.pc = "done", !.res = athread[a].res]]
    /\ UNCHANGED <<output_params, input_params, buffer_frames, output_buffer, input_buffer,
                   callback, running, thread_handle, stream_mutex, callback_mutex,
                   ocall, opc, result, ended, found, bufVars, dspVars, codecVars>>

AudioStep(a) ==
    \/ audio_thread_init(a)
    \/ audio_thread_loop(a)
    \/ audio_thread_prepare(a)
    \/ audio_thread_callback_enter(a)
    \/ \E code \in 0..2 : audio_thread_callback_return(a, code)
    \/ audio_thread_copy(a)
    \/ audio_thread_handle(a)
    \/ audio_thread_mark(a)

\* the steps that carry on a method the owner has entered
OwnerContinue ==
    \/ open_stream_store_callback
    \/ start_stream_store
    \/ start_stream_spawn
    \/ stop_stream_store
    \/ stop_stream_join
    \/ stop_stream_mark
    \/ close_stream_stop
    \/ close_stream_mark
    \/ close_stream_clear_callback
    \/ drop_close_stream

NextRealtime ==
    \/ \E output, input \in Params, frames \in 1..MaxFrames : open_stream(output, input, frames)
    \/ open_stream_store_callback
    \/ start_stream
    \/ start_stream_store
    \/ start_stream_spawn
    \/ \E call \in {"stop_stream", "abort_stream"} : stop_stream(call)
    \/ stop_stream_store
    \/ stop_stream_join
    \/ stop_stream_mark
    \/ close_stream
    \/ close_stream_stop
    \/ close_stream_mark
    \/ close_stream_clear_callback
    \/ drop
    \/ drop_close_stream
    \/ \E a \in AudioThread : audio_thread_init(a)
    \/ \E a \in AudioThread : audio_thread_loop(a)
    \/ \E a \in AudioThread : audio_thread_prepare(a)
    \/ \E a \in AudioThread : audio_thread_callback_enter(a)
    \/ \E a \in AudioThread, code \in 0..2 : audio_thread_callback_return(a, code)
    \/ \E a \in AudioThread : audio_thread_copy(a)
    \/ \E a \in AudioThread : audio_thread_handle(a)
    \/ \E a \in AudioThread : audio_thread_mark(a)

\* no buffer is in play
InitNoBuffers ==
    /\ InitLock
    /\ kind = "Buffer"
    /\ buffer = [s \in Storage |-> Buffer_new(0)]
    /\ index = [s \in Storage |-> 0]
    /\ read = [s \in Storage |-> 0]
    /\ write = [s \in Storage |-> 0]
    /\ mask = [s \in Storage |-> 0]

InitSpecRealtime ==
    /\ InitRealtime
    /\ InitNoBuffers
    /\ InitNoDsp
    /\ InitNoCodec

SpecRealtime == InitSpecRealtime /\ [][NextRealtime]_vars

\* the scheduler runs every audio thread, a user callback returns, and the
\* owner finishes the method it is in
FairSpecRealtime ==
    /\ InitSpecRealtime
    /\ [][NextRealtime]_vars
    /\ \A a \in AudioThread : WF_vars(AudioStep(a))
    /\ WF_vars(OwnerContinue)

(***************************************************************************)
(* Threads sharing one buffer                                              *)
(***************************************************************************)
NextBuffers ==
    \/ \E t \in Thread : Handle_read(t)
    \/ \E t \in Thread : Handle_try_read(t)
    \/ \E t \in Thread : Handle_write(t)
    \/ \E t \in Thread : Handle_try_write(t)
    \/ \E t \in Thread : ReadGuard_drop(t)
    \/ \E t \in Thread : WriteGuard_drop(t)
    \/ \E t, u \in Thread : Handle_clone(t, u)
    \/ \E t \in Thread, i \in 0..(MaxLen - 1), x \in Val : BufferWriteGuard_index_mut(t, i, x)
    \/ \E t \in Thread, len \in 0..MaxLen : Buffer_resize(t, len)
    \/ \E t \in Thread, value \in Val : PushBuffer_push(t, value)
    \/ \E t \in Thread, value \in Val : PushBufferWriteGuard_push(t, value)
    \/ \E t \in Thread, idx \in 0..(MaxLen + 1) : PushBuffer_set_index(t, idx)
    \/ \E t \in Thread, len \in 0..MaxLen : PushBuffer_resize(t, len)
    \/ \E t \in Thread, value \in Val : CircularBuffer_push(t, value)
    \/ \E t \in Thread, value \in Val : CircularBufferWriteGuard_push(t, value)
    \/ \E t \in Thread : CircularBuffer_next(t)
    \/ \E t \in Thread : CircularBufferWriteGuard_next(t)
    \/ \E t \in Thread : CircularBuffer_clear(t)
    \/ \E t \in Thread, len \in 0..MaxCircLen : CircularBuffer_resize(t, len)

InitSpecBuffers == InitBuffers /\ InitRealtime /\ InitNoDsp /\ InitNoCodec

SpecBuffers == InitSpecBuffers /\ [][NextBuffers]_vars

(***************************************************************************)
(* Properties of the buffers                                               *)
(***************************************************************************)
Distinct(seq) == \A i, j \in 1..Len(seq) : i # j => seq[i] # seq[j]

\* C1: on one storage a write guard never coexists with another read or
\* write guard, while read guards may coexist; try_read / try_write are
\* never blocked and hand out no guard while an incompatible guard is held;
\* the blocking read() / write() cannot return while the lock is not free.
C1_RwLockDiscipline ==
    /\ \A s \in Storage :
         /\ Cardinality(WriteGuards(s)) <= 1
         /\ WriteHeld(s) => ~ReadHeld(s)
    /\ \A t \in Thread : (Live(t) /\ guards[t] = "none") =>
         /\ ENABLED Handle_try_read(t)
         /\ ENABLED Handle_try_write(t)
         /\ WriteHeld(inner[t]) =>
              /\ ~ENABLED (Handle_try_read(t) /\ guards' # guards)
              /\ ~ENABLED Handle_read(t)
         /\ ~Unlocked(inner[t]) =>
              /\ ~ENABLED (Handle_try_write(t) /\ guards' # guards)
              /\ ~ENABLED Handle_write(t)
         /\ ~WriteHeld(inner[t]) => ENABLED Handle_read(t)
         /\ Unlocked(inner[t]) => ENABLED Handle_write(t)

\* C1 witness: two threads hold read guards on the same storage at once,
\* each through its own handle.
C1_Witness ==
    \E s \in Storage : Cardinality(ReadGuards(s)) >= 2

\* C2: the value last stored at index i through a write guard of one handle
\* is what every read guard, taken through any handle of the buffer, shows
\* at index i (until index i is stored to again or the buffer is resized).
C2_WriteThenRead ==
    \A u \in Thread :
        (kind = "Buffer" /\ wlog.op = "index_mut" /\ Live(u) /\ guards[u] = "read") =>
            /\ wlog.i < Buffer_len(u)
            /\ BufferReadGuard_index(u, wlog.i) = wlog.x

\* C2 witness: another thread than the writer reads the non-default value
\* through its own clone.
C2_Witness ==
    \E u \in Thread :
        /\ kind = "Buffer" /\ wlog.op = "index_mut"
        /\ u # wlog.t /\ wlog.x # Default
        /\ guards[u] = "read"
        /\ BufferReadGuard_index(u, wlog.i) = wlog.x

\* C3: the length of a Buffer does not change in a step taken while a read
\* or write guard is alive on its storage; a resize(len) step happens only
\* with no guard alive and leaves len default samples.
C3_ResizeExclusive ==
    /\ [][kind = "Buffer" =>
             \A s \in Storage : ~Unlocked(s) => Len(buffer'[s]) = Len(buffer[s])]_vars
    /\ [][kind = "Buffer" =>
             \A t \in Thread, len \in 0..MaxLen :
                 Buffer_resize(t, len) =>
                     /\ Unlocked(inner[t])
                     /\ Buffer_len(t)' = len
                     /\ buffer'[inner[t]] = Zeros(len)]_vars

\* C3 witness: a buffer that held a non-default sample was resized to the
\* largest length and is now read under a guard.
C3_Witness ==
    /\ kind = "Buffer" /\ wlog.op = "resize" /\ wlog.x = MaxLen
    /\ \E u \in Thread : guards[u] = "read" /\ u # wlog.t /\ buffer[inner[u]] = Zeros(MaxLen)

\* C9: after the pushes hist (through the handle or a write guard) into a
\* PushBuffer of length N >= 1, the fill index is min(|hist|, N), positions
\* 0..fill-1 hold the last fill samples of hist in arrival order and the
\* positions from fill on hold the default.
C9_PushWindow ==
    \A t \in Thread :
        (kind = "PushBuffer" /\ pure /\ Live(t) /\ Len(buffer[inner[t]]) >= 1) =>
            LET buf == buffer[inner[t]]
                N == Len(buf)
                k == Len(hist)
                fill == PushBuffer_get_index(t)
            IN  /\ fill = Min(k, N)
                /\ \A j \in 1..N :
                     buf[j] = IF j <= fill THEN hist[k - fill + j] ELSE Default

\* C9 witness: more pushes than the window is long, the oldest sample gone.
C9_Witness ==
    /\ kind = "PushBuffer" /\ pure
    /\ Len(buffer[1]) = 2 /\ Len(hist) = 3
    /\ hist[1] # hist[2] /\ hist[2] # hist[3] /\ hist[3] # Default
    /\ buffer[1] = <<hist[2], hist[3]>>

\* C10 as stated: after k <= M pushes of distinct values into an empty ring,
\* the first k next() calls return them in order and every further next()
\* returns the default.
C10_DrainedRingYieldsDefault ==
    \A t \in Thread :
        (kind = "CircularBuffer" /\ pure /\ Live(t) /\ Distinct(hist)
            /\ Len(hist) <= CircularBuffer_capacity(t)) =>
            \A j \in 1..Len(pops) :
                pops[j] = IF j <= Len(hist) THEN hist[j] ELSE Default

\* C10 amended: after k <= M pushes of distinct values into an empty ring,
\* the j-th next() call returns the content of slot (j-1) mod M: the first k
\* calls return v1..vk in order, the next M-k calls return the default, and
\* from call M+1 on the same M values come round again.
C10_RingReplays ==
    \A t \in Thread :
        (kind = "CircularBuffer" /\ pure /\ Live(t) /\ Distinct(hist)
            /\ Len(hist) <= CircularBuffer_capacity(t)) =>
            \A j \in 1..Len(pops) :
                LET slot == (j - 1) % CircularBuffer_capacity(t)
                IN  pops[j] = IF slot < Len(hist) THEN hist[slot + 1] ELSE Default

\* C10 witness: one value pushed into a ring of two, three next() calls:
\* the value, the default, the value again.
C10_Witness ==
    /\ kind = "CircularBuffer" /\ pure
    /\ CircularBuffer_capacity(1) = 2
    /\ Len(hist) = 1 /\ hist[1] # Default
    /\ pops = <<hist[1], Default, hist[1]>>

(***************************************************************************)
(* Properties of the stream lifecycle                                      *)
(***************************************************************************)
AfterReturn(calls) == opc \in {"idle", "dropped"} /\ result.call \in calls

NoAudioThread == \A a \in AudioThread : Finished(a)

\* the audio thread never dies in copy_from_slice
NoPanic == \A a \in AudioThread : athread[a].pc # "panicked"

\* C4: the stream state starts Closed and changes only along these edges:
\* Closed -> Stopped by a successful open_stream, Stopped -> Running by a
\* successful start_stream, Running -> Stopped by stop_stream / abort_stream or
\* by the audio thread's last statement, and any state -> Closed by
\* close_stream.  In particular nothing leads from Closed to Running and no
\* audio thread moves a closed stream to Stopped.
C4_StateEdges ==
    /\ state = "Closed"
    /\ [][state' # state =>
            \/ /\ state = "Closed" /\ state' = "Stopped"
               /\ ocall' = "open_stream" /\ opc' = "open_store_callback"
               /\ \E output, input \in Params, frames \in 1..MaxFrames :
                     open_stream(output, input, frames)
            \/ /\ state = "Stopped" /\ state' = "Running"
               /\ start_stream
            \/ /\ state = "Running" /\ state' = "Stopped"
               /\ \/ stop_stream_mark
                  \/ \E a \in AudioThread : audio_thread_mark(a)
            \/ /\ state' = "Closed"
               /\ close_stream_mark
       ]_vars

\* a stream was opened, started, ended by its own callback and then closed
C4_Witness ==
    /\ state = "Closed"
    /\ result.call = "close_stream"
    /\ \E a \in AudioThread : athread[a].pc = "done" /\ athread[a].res = 2

\* C5: when open_stream, start_stream, stop_stream or abort_stream returns an
\* error, the stream state, the stored parameters, the buffers, the callback,
\* the running flag and the audio thread are what they were before the call.
\* The error is InvalidParameter only for open_stream, and InvalidUse stands for
\* open_stream on a stream that is not Closed, start_stream on a stream that is
\* Closed or Running, and stop_stream / abort_stream on a stream that is not
\* Running.
C5_ErrorsLeaveStateAlone ==
    [][(result' # result /\ result'.ret # "Ok") =>
          /\ UNCHANGED <<streamVars, callback, running, thread_handle, athread>>
          /\ result'.pre = state
          /\ result'.ret = "InvalidParameter" => result'.call = "open_stream"
          /\ result'.ret = "InvalidUse" =>
                \/ result'.call = "open_stream" /\ state # "Closed"
                \/ result'.call = "start_stream" /\ state \in {"Closed", "Running"}
                \/ result'.call \in {"stop_stream", "abort_stream"} /\ state # "Running"
      ]_vars

\* open_stream was refused on a running stream whose thread is inside the callback
C5_Witness ==
    /\ result.call = "open_stream"
    /\ result.ret = "InvalidUse"
    /\ result.pre = "Running"
    /\ opc = "idle"
    /\ \E a \in AudioThread : athread[a].pc = "in_callback"

\* C6: once stop_stream or abort_stream has returned Ok, and until another
\* method returns, no audio thread is alive and nobody is inside the callback;
\* an audio thread exists again only when start_stream has returned Ok.
C6_StopJoinsThread ==
    (result.call \in {"stop_stream", "abort_stream"} /\ result.ret = "Ok") =>
        /\ NoAudioThread
        /\ callback_mutex = 0
        /\ state = "Stopped" \/ opc # "idle"

\* stop_stream returned Ok for a thread that was still looping (its callback
\* had returned 0)
C6_Witness ==
    /\ result.call = "stop_stream"
    /\ result.ret = "Ok"
    /\ opc = "idle"
    /\ \E a \in AudioThread : athread[a].pc = "done" /\ athread[a].res = 0
    /\ ~ended

\* C7: after the callback has returned 1 or 2 it is not entered again before a
\* later start_stream succeeds, and the stream state becomes Stopped; after it
\* has returned 0 the thread leaves the state alone, goes round the loop, and
\* enters the callback again unless the running flag has been cleared.
C7_CallbackResult ==
    /\ [][\A a \in AudioThread :
             /\ (athread[a].pc # "in_callback" /\ athread'[a].pc = "in_callback") => ~ended
             /\ (audio_thread_handle(a) /\ athread[a].res = 0) =>
                    (state' = state /\ athread'[a].pc = "loop")
         ]_vars
    /\ \A a \in AudioThread :
          (athread[a].pc \in {"copy", "handle"} /\ athread[a].res \in {1, 2})
              ~> (state = "Stopped")
    /\ \A a \in AudioThread :
          (athread[a].pc = "handle" /\ athread[a].res = 0)
              ~> (athread[a].pc = "in_callback" \/ ~running)

\* the callback returned 2 and the thread stopped the stream on its own: the
\* last thing the owner did was the start
C7_Witness ==
    /\ state = "Stopped"
    /\ result.call = "start_stream"
    /\ opc = "idle"
    /\ ended
    /\ \E a \in AudioThread : athread[a].pc = "done" /\ athread[a].res = 2

\* C8: when close_stream (or the Drop that calls it) has returned, the state is
\* Closed, every audio thread has run its last statement (the one that was
\* running has been joined), the callback is removed, both buffers are
\* empty and both mutexes are free; an open_stream with valid arguments then
\* goes through, and nothing stands in the way of storing its callback.
C8_CloseFromAnyState ==
    /\ AfterReturn({"close_stream", "drop"}) =>
          /\ result.ret = "Ok"
          /\ state = "Closed"
          /\ NoAudioThread
          /\ callback = "None"
          /\ output_buffer = 0 /\ input_buffer = 0
          /\ stream_mutex = "free" /\ callback_mutex = 0
    /\ AfterReturn({"close_stream"}) =>
          \A output, input \in Params, frames \in 1..MaxFrames :
             (output # 0 \/ input # 0) =>
                ENABLED (open_stream(output, input, frames) /\ state' = "Stopped")
    /\ opc = "open_store_callback" => ENABLED open_stream_store_callback

\* close_stream was called on a running stream whose callback then asked to
\* stop, and has returned
C8_Witness ==
    /\ AfterReturn({"close_stream"})
    /\ result.pre = "Running"
    /\ \E a \in AudioThread : athread[a].pc = "done" /\ athread[a].res \in {1, 2}

(***************************************************************************)
(* dsp::Convolution.  Samples and kernel coefficients are integers: every  *)
(* sum of products is then exact, as it is for the f64 values k/4 of the   *)
(* moving-average kernel.  The lock calls of process and run are those of  *)
(* the buffers above; here one caller works on the Convolution at a time.  *)
(***************************************************************************)
Sample == 0..MaxSample
Coef == 0..MaxCoef

\* PushBufferWriteGuard::push on the window w = [buffer, index]
guard_push(w, value) ==
    LET len == Len(w.buffer)
    IN  IF len = 0 THEN w
        ELSE IF w.index < len
             THEN [w EXCEPT !.buffer[w.index + 1] = value, !.index = @ + 1]
             ELSE [w EXCEPT !.buffer = [i \in 1..len |-> IF i < len THEN w.buffer[i + 1] ELSE value]]

RECURSIVE Dot(_, _, _)
\* for i in 0..n { sum += guard[i] * kernel[i] }
Dot(window, kernel, n) ==
    IF n = 0 THEN 0 ELSE Dot(window, kernel, n - 1) + window[n] * kernel[n]

\* Convolution::new, then set_index(len); `output` is the Buffer run writes to
Convolution_new(kernel, outlen) ==
    [kernel |-> kernel,
     buffer |-> Zeros(Len(kernel)),
     index |-> Min(Len(kernel), Len(Zeros(Len(kernel)))),
     output |-> Zeros(outlen),
     xs |-> <<>>,
     ys |-> <<>>]

\* the body of Convolution::process on the Convolution c
Process(c, input) ==
    LET g == guard_push([buffer |-> c.buffer, index |-> c.index], input)
        sum == Dot(g.buffer, c.kernel, Len(c.kernel))
    IN  [c EXCEPT !.buffer = g.buffer, !.index = g.index,
                  !.xs = Append(@, input), !.ys = Append(@, sum)]

RECURSIVE RunLoop(_, _, _, _)
\* for index in from..n of Convolution::run
RunLoop(c, input, from, n) ==
    IF from > n THEN c
    ELSE LET d == Process(c, input[from])
         IN  RunLoop([d EXCEPT !.output[from] = d.ys[Len(d.ys)]], input, from + 1, n)

\* Convolution::run(input, output)
Run(c, input) == RunLoop(c, input, 1, Min(Len(input), Len(c.output)))

RECURSIVE ProcessAll(_, _, _)
\* Convolution::process called on the first n samples of xs, one by one
ProcessAll(c, xs, n) ==
    IF n = 0 THEN c ELSE Process(ProcessAll(c, xs, n - 1), xs[n])

InitConvolution ==
    \E kernel \in SeqsUpTo(Coef, MaxKernel), outlen \in 0..MaxBlock :
        convolution = Convolution_new(kernel, outlen)

\* Convolution::process
Convolution_process(input) ==
    /\ Len(convolution.xs) < MaxInput
    /\ convolution' = Process(convolution, input)
    /\ UNCHANGED <<delay, dynVars, codecVars, bufVars, rtVars>>

\* a run that starts from an empty window
Convolution_run_fresh_window(input) ==
    /\ Len(convolution.xs) + Min(Len(input), Len(convolution.output)) <= MaxInput
    /\ convolution' = Run([convolution EXCEPT !.buffer = Zeros(Len(@))], input)
    /\ UNCHANGED <<delay, dynVars, codecVars, bufVars, rtVars>>

\* Convolution::run
Convolution_run(input) ==
    /\ Len(convolution.xs) + Min(Len(input), Len(convolution.output)) <= MaxInput
    /\ convolution' = Run(convolution, input)
    /\ UNCHANGED <<delay, dynVars, codecVars, bufVars, rtVars>>

NextConvolution ==
    \/ \E input \in Sample : Convolution_process(input)
    \/ \E input \in SeqsUpTo(Sample, MaxBlock) : Convolution_run(input)

InitSpecConvolution ==
    /\ InitConvolution
    /\ delay = NoDelay
    /\ InitNoDynamics
    /\ InitNoCodec
    /\ InitNoBuffers
    /\ InitRealtime

SpecConvolution == InitSpecConvolution /\ [][NextConvolution]_vars

\* xs is the impulse 1, 0, 0, ...
Impulse(xs) == Len(xs) >= 1 /\ xs[1] = 1 /\ \A n \in 2..Len(xs) : xs[n] = 0

\* C11: when the impulse 1, 0, 0, ... is fed sample by sample to a Convolution
\* whose window started all zero, output n is kernel[n] for n within the kernel
\* and 0 after it.
C11_ImpulseResponseIsKernel ==
    Impulse(convolution.xs) =>
        \A n \in 1..Len(convolution.ys) :
            convolution.ys[n] =
                IF n <= Len(convolution.kernel) THEN convolution.kernel[n] ELSE 0

Time == 0..MaxTime
Rate == {500 * k : k \in 1..MaxRate}
Mix == 0..1

\* ((time * 0.001 * sample_rate) as usize).max(1)
delay_samples(time, sample_rate) == Max((time * sample_rate) \div 1000, 1)

\* CircularBuffer::new(len) / CircularBuffer::resize(len) on the Delay d
ring_new(d, len) ==
    LET actual_len == Max(next_power_of_two(len), 1)
    IN  [d EXCEPT !.buffer = Zeros(actual_len), !.read = 0, !.write = 0,
                  !.mask = actual_len - 1,
                  !.xs = <<>>, !.ds = <<>>, !.ys = <<>>]

\* Delay::new, with the two public fields then set by the caller
Delay_new(time, sample_rate, feedback, mix) ==
    ring_new([NoDelay EXCEPT !.time = time, !.sample_rate = sample_rate,
                             !.feedback = feedback, !.mix = mix],
             delay_samples(time, sample_rate))

InitDelay ==
    \E time \in Time, sample_rate \in Rate, feedback \in 0..MaxFeedback, mix \in Mix :
        delay = Delay_new(time, sample_rate, feedback, mix)

\* Delay::set_time
Delay_set_time(time) ==
    /\ delay' = ring_new([delay EXCEPT !.time = time], delay_samples(time, delay.sample_rate))
    /\ UNCHANGED <<convolution, dynVars, codecVars, bufVars, rtVars>>

\* Delay::set_sample_rate
Delay_set_sample_rate(sample_rate) ==
    /\ delay' = ring_new([delay EXCEPT !.sample_rate = sample_rate],
                         delay_samples(delay.time, sample_rate))
    /\ UNCHANGED <<convolution, dynVars, codecVars, bufVars, rtVars>>

\* Delay::process : guard.next(), guard.push(input + delayed * feedback)
Delay_process(input) ==
    /\ Len(delay.xs) < MaxDelayInput
    /\ LET delayed == delay.buffer[delay.read + 1]
           rd == BitAnd(delay.read + 1, delay.mask)
       IN  delay' = [delay EXCEPT
                       !.read = rd,
                       !.buffer[delay.write + 1] = input + delayed * delay.feedback,
                       !.write = BitAnd(delay.write + 1, delay.mask),
                       !.xs = Append(@, input),
                       !.ds = Append(@, delayed),
                       !.ys = Append(@, input * (1 - delay.mix) + delayed * delay.mix)]
    /\ UNCHANGED <<convolution, dynVars, codecVars, bufVars, rtVars>>

NextDelay ==
    \/ \E time \in Time : Delay_set_time(time)
    \/ \E sample_rate \in Rate : Delay_set_sample_rate(sample_rate)
    \/ \E input \in Sample : Delay_process(input)

InitSpecDelay ==
    /\ InitDelay
    /\ convolution = NoConvolution
    /\ InitNoDynamics
    /\ InitNoCodec
    /\ InitNoBuffers
    /\ InitRealtime

SpecDelay == InitSpecDelay /\ [][NextDelay]_vars

\* round(ms * sr / 1000), halves rounded up
Round1000(q) == (q + 500) \div 1000

\* C13: the ring of a Delay holds exactly D = max(1, round(ms*sr/1000))
\* samples; over the inputs x since the ring was last sized the delayed term is
\* d[n] = 0 for n < D and x[n-D] + feedback*d[n-D] after that, and the output is
\* y[n] = x[n]*(1-mix) + d[n]*mix.
C13_DelayIsD ==
    LET D == Max(Round1000(delay.time * delay.sample_rate), 1)
    IN  /\ Len(delay.buffer) = D
        /\ \A n \in 1..Len(delay.xs) :
              /\ delay.ds[n] = IF n <= D THEN 0
                               ELSE delay.xs[n - D] + delay.feedback * delay.ds[n - D]
              /\ delay.ys[n] = delay.xs[n] * (1 - delay.mix) + delay.ds[n] * delay.mix

\* what the code does: the delay is the capacity of the ring, the next power of
\* two at or above max(1, trunc(ms*sr/1000))
DelayIsCapacity ==
    LET M == next_power_of_two(delay_samples(delay.time, delay.sample_rate))
    IN  /\ Len(delay.buffer) = M
        /\ \A n \in 1..Len(delay.xs) :
              /\ delay.ds[n] = IF n <= M THEN 0
                               ELSE delay.xs[n - M] + delay.feedback * delay.ds[n - M]
              /\ delay.ys[n] = delay.xs[n] * (1 - delay.mix) + delay.ds[n] * delay.mix

(***************************************************************************)
(* audiofile: bytes, chunk ids and the integer writers.  A sample is kept  *)
(* as a fraction: <<n, d>> stands for the f64 value n/d, with d = 2 for    *)
(* the values a caller stores, d the peak of the bit depth for the values  *)
(* a decoder stores, and <<0, 1>> for 0.0.  Text is kept as its bytes.     *)
(***************************************************************************)
Byte == 0..255

RIFF == <<82, 73, 70, 70>>
WAVE == <<87, 65, 86, 69>>
FORM == <<70, 79, 82, 77>>
Form == <<70, 111, 114, 109>>
AIFF == <<65, 73, 70, 70>>
AIFC == <<65, 73, 70, 67>>
COMM == <<67, 79, 77, 77>>
SSND == <<83, 83, 78, 68>>
fmt_ == <<102, 109, 116, 32>>
data == <<100, 97, 116, 97>>
iXML == <<105, 88, 77, 76>>
bext == <<98, 101, 120, 116>>
cue_ == <<99, 117, 101, 32>>
LIST == <<76, 73, 83, 84>>
adtl == <<97, 100, 116, 108>>
labl == <<108, 97, 98, 108>>
acid == <<97, 99, 105, 100>>

\* the rates of AIFF_SAMPLE_RATE_TABLE with their ten bytes
AIFF_SAMPLE_RATE_TABLE ==
    << <<8000, <<64, 11, 250, 0, 0, 0, 0, 0, 0, 0>> >>,
       <<11025, <<64, 12, 172, 68, 0, 0, 0, 0, 0, 0>> >>,
       <<16000, <<64, 12, 250, 0, 0, 0, 0, 0, 0, 0>> >>,
       <<22050, <<64, 13, 172, 68, 0, 0, 0, 0, 0, 0>> >>,
       <<32000, <<64, 13, 250, 0, 0, 0, 0, 0, 0, 0>> >>,
       <<37800, <<64, 14, 147, 168, 0, 0, 0, 0, 0, 0>> >>,
       <<44056, <<64, 14, 172, 24, 0, 0, 0, 0, 0, 0>> >>,
       <<44100, <<64, 14, 172, 68, 0, 0, 0, 0, 0, 0>> >>,
       <<47250, <<64, 14, 184, 146, 0, 0, 0, 0, 0, 0>> >>,
       <<48000, <<64, 14, 187, 128, 0, 0, 0, 0, 0, 0>> >>,
       <<50000, <<64, 14, 195, 80, 0, 0, 0, 0, 0, 0>> >>,
       <<50400, <<64, 14, 196, 224, 0, 0, 0, 0, 0, 0>> >>,
       <<88200, <<64, 15, 172, 68, 0, 0, 0, 0, 0, 0>> >>,
       <<96000, <<64, 15, 187, 128, 0, 0, 0, 0, 0, 0>> >>,
       <<176400, <<64, 16, 172, 68, 0, 0, 0, 0, 0, 0>> >>,
       <<192000, <<64, 16, 187, 128, 0, 0, 0, 0, 0, 0>> >>,
       <<352800, <<64, 17, 172, 68, 0, 0, 0, 0, 0, 0>> >>,
       <<2822400, <<64, 20, 172, 68, 0, 0, 0, 0, 0, 0>> >>,
       <<5644800, <<64, 21, 172, 68, 0, 0, 0, 0, 0, 0>> >> >>

\* n zero bytes
ZeroBytes(n) == [i \in 1..n |-> 0]

RECURSIVE Pow256(_)
Pow256(k) == IF k = 0 THEN 1 ELSE 256 * Pow256(k - 1)

\* the n low bytes of the two's complement of v, lowest first
LowBytes(v, n) == [k \in 1..n |-> (v \div Pow256(k - 1)) % 256]

Reverse(seq) == [i \in 1..Len(seq) |-> seq[Len(seq) + 1 - i]]

\* set_u16 / set_u32 / set_u64 : what they append for the value data
set_u16(value, endianness) ==
    IF endianness = "Little" THEN LowBytes(value, 2) ELSE Reverse(LowBytes(value, 2))
set_u32(value, endianness) ==
    IF endianness = "Little" THEN LowBytes(value, 4) ELSE Reverse(LowBytes(value, 4))
set_u64(value, endianness) ==
    IF endianness = "Little" THEN LowBytes(value, 4) \o ZeroBytes(4)
    ELSE ZeroBytes(4) \o Reverse(LowBytes(value, 4))

\* write_fixed_string
write_fixed_string(string, len) ==
    LET write_len == Min(Len(string), len)
    IN  SubSeq(string, 1, write_len) \o ZeroBytes(len - write_len)

\* set_aiff_sample_rate : ten bytes for a rate of the table, nothing otherwise
set_aiff_sample_rate(sample_rate) ==
    LET hits == {i \in 1..Len(AIFF_SAMPLE_RATE_TABLE) : AIFF_SAMPLE_RATE_TABLE[i][1] = sample_rate}
    IN  IF hits = {} THEN <<>>
        ELSE AIFF_SAMPLE_RATE_TABLE[CHOOSE i \in hits : \A j \in hits : i <= j][2]

\* i8::MAX, i16::MAX, 8388607.0, i32::MAX for the bit depth
Peak(bit_depth) ==
    CASE bit_depth = 8 -> 127
      [] bit_depth = 16 -> 32767
      [] bit_depth = 24 -> 8388607
      [] bit_depth = 32 -> 2147483647

\* the f64 value n/d
Ratio(n, d) == IF n = 0 THEN <<0, 1>> ELSE <<n, d>>

\* sample.clamp(-1.0, 1.0)
clamp(s) == IF s[1] < -s[2] THEN <<-1, 1>> ELSE IF s[1] > s[2] THEN <<1, 1>> ELSE s

\* (sample * peak) as iN for a clamped sample: the product cut toward zero
Quantize(s, peak) ==
    LET a == IF s[1] < 0 THEN -s[1] ELSE s[1]
        q == (a \div s[2]) * peak + ((a % s[2]) * peak) \div s[2]
    IN  IF s[1] < 0 THEN -q ELSE q

\* a sample writer that takes no notice of the container's byte order
SampleBytes_low_first(s, bit_depth, endianness) ==
    IF bit_depth \notin {8, 16, 24, 32} THEN <<>>
    ELSE LowBytes(Quantize(clamp(s), Peak(bit_depth)), bit_depth \div 8)

\* the bytes one sample is written as; <<>> stands for an unsupported depth
SampleBytes(s, bit_depth, endianness) ==
    IF bit_depth \notin {8, 16, 24, 32} THEN <<>>
    ELSE LET low == LowBytes(Quantize(clamp(s), Peak(bit_depth)), bit_depth \div 8)
         IN  IF endianness = "Little" THEN low ELSE Reverse(low)

\* AudioFile::num_channel, AudioFile::num_sample
num_channel(f) == Len(f.audio_buffer)
num_sample(f) == IF f.audio_buffer = <<>> THEN 0 ELSE Len(f.audio_buffer[1])

RECURSIVE Flatten(_)
Flatten(seqs) == IF seqs = <<>> THEN <<>> ELSE Head(seqs) \o Flatten(Tail(seqs))

\* the sample loop of save_wav_internal / save_aiff, in the order the samples
\* are visited : [bytes, stop], stop being "done", "unsupported" (the return
\* in the loop) or "panic" (a channel shorter than channel 0)
SampleLoop(f, endianness) ==
    LET ns == num_sample(f)
        nc == num_channel(f)
        w == f.bit_depth \div 8
        visit == [k \in 1..(ns * nc) |-> <<((k - 1) % nc) + 1, ((k - 1) \div nc) + 1>>]
        short == {k \in 1..(ns * nc) : visit[k][2] > Len(f.audio_buffer[visit[k][1]])}
    IN  IF ns * nc = 0 THEN [bytes |-> <<>>, stop |-> "done"]
        ELSE IF short # {} /\ (\E k \in short : k = 1 \/ f.bit_depth \in {8, 16, 24, 32})
             THEN [bytes |-> <<>>, stop |-> "panic"]
        ELSE IF f.bit_depth \notin {8, 16, 24, 32}
             THEN [bytes |-> <<>>, stop |-> "unsupported"]
        ELSE [bytes |-> [j \in 1..(ns * nc * w) |->
                          SampleBytes(f.audio_buffer[visit[((j - 1) \div w) + 1][1]]
                                                    [visit[((j - 1) \div w) + 1][2]],
                                      f.bit_depth, endianness)[((j - 1) % w) + 1]],
              stop |-> "done"]

\* write_bext_chunk
write_bext_chunk(b) ==
    bext \o set_u32(602 + Len(b.coding_history), "Little")
    \o write_fixed_string(b.description, 256)
    \o write_fixed_string(b.originator, 32)
    \o write_fixed_string(b.originator_reference, 32)
    \o write_fixed_string(b.origination_date, 10)
    \o write_fixed_string(b.origination_time, 8)
    \o set_u64(b.time_reference, "Little")
    \o set_u16(b.version, "Little")
    \o ZeroBytes(64)
    \o ZeroBytes(10)
    \o ZeroBytes(180)
    \o b.coding_history

\* write_cue_chunk
write_cue_chunk(markers) ==
    cue_ \o set_u32(4 + Len(markers) * 24, "Little")
    \o set_u32(Len(markers), "Little")
    \o Flatten([i \in 1..Len(markers) |->
          set_u32(markers[i].id, "Little") \o set_u32(markers[i].position, "Little")
          \o data \o set_u32(0, "Little") \o set_u32(0, "Little") \o set_u32(0, "Little")])

\* label.len() + 1, made even
padded_len(label) == IF (Len(label) + 1) % 2 = 1 THEN Len(label) + 2 ELSE Len(label) + 1

RECURSIVE SumSeq(_)
SumSeq(seq) == IF seq = <<>> THEN 0 ELSE Head(seq) + SumSeq(Tail(seq))

\* list_size of save_wav_internal and of write_list_adtl_chunk
list_size(markers) ==
    4 + SumSeq([i \in 1..Len(markers) |->
                  IF markers[i].label # <<>> THEN 8 + 4 + padded_len(markers[i].label) ELSE 0])

\* a LIST writer that leaves out the padding byte of a label
write_list_adtl_chunk_unpadded(markers) ==
    IF list_size(markers) <= 4 THEN <<>>
    ELSE LIST \o set_u32(list_size(markers), "Little") \o adtl
         \o Flatten([i \in 1..Len(markers) |->
               IF markers[i].label = <<>> THEN <<>>
               ELSE labl \o set_u32(4 + padded_len(markers[i].label), "Little")
                    \o set_u32(markers[i].id, "Little")
                    \o markers[i].label \o <<0>>])

\* write_list_adtl_chunk
write_list_adtl_chunk(markers) ==
    IF list_size(markers) <= 4 THEN <<>>
    ELSE LIST \o set_u32(list_size(markers), "Little") \o adtl
         \o Flatten([i \in 1..Len(markers) |->
               IF markers[i].label = <<>> THEN <<>>
               ELSE labl \o set_u32(4 + padded_len(markers[i].label), "Little")
                    \o set_u32(markers[i].id, "Little")
                    \o markers[i].label \o <<0>>
                    \o (IF (Len(markers[i].label) + 1) % 2 = 1 THEN <<0>> ELSE <<>>)])

\* write_acid_chunk for the tempo 120 bpm in 4/4; num_beats is
\* (num_samples / sample_rate * bpm / 60) as u32, which is u32::MAX or 0 when
\* the sample rate is 0
write_acid_chunk(samples, sample_rate) ==
    acid \o set_u32(24, "Little")
    \o set_u32(0, "Little") \o set_u16(60, "Little") \o set_u16(0, "Little")
    \o set_u32(0, "Little")
    \o (IF sample_rate = 0
        THEN (IF samples = 0 THEN ZeroBytes(4) ELSE <<255, 255, 255, 255>>)
        ELSE set_u32((samples * 2) \div sample_rate, "Little"))
    \o set_u16(4, "Little") \o set_u16(4, "Little")
    \o <<0, 0, 240, 66>>

\* save_wav_internal : [bytes, written]; the vector is handed to the file only
\* when the function reaches its end
save_wav_internal(f, include_bwf) ==
    LET data_chunk_size == (num_sample(f) * num_channel(f) * f.bit_depth) \div 8
        format_chunk_size == 16
        i_xmlchunk_size == Len(f.xml_chunk)
        has_bext == include_bwf /\ f.bext_chunk # <<>>
        bext_chunk_size == IF has_bext THEN 602 + Len(f.bext_chunk[1].coding_history) ELSE 0
        cue_chunk_size == IF f.markers # <<>> THEN 4 + Len(f.markers) * 24 ELSE 0
        list_chunk_size == IF f.markers # <<>> /\ list_size(f.markers) > 4
                           THEN list_size(f.markers) ELSE 0
        acid_chunk_size == IF f.tempo THEN 24 ELSE 0
        file_size_in_bytes ==
            4 + format_chunk_size + 8 + 8 + data_chunk_size
            + (IF i_xmlchunk_size > 0 THEN 8 + i_xmlchunk_size ELSE 0)
            + (IF bext_chunk_size > 0 THEN 8 + bext_chunk_size ELSE 0)
            + (IF cue_chunk_size > 0 THEN 8 + cue_chunk_size ELSE 0)
            + (IF list_chunk_size > 0 THEN 8 + list_chunk_size ELSE 0)
            + (IF acid_chunk_size > 0 THEN 8 + acid_chunk_size ELSE 0)
        loop == SampleLoop(f, "Little")
        head ==
            RIFF \o set_u32(file_size_in_bytes, "Little") \o WAVE
            \o (IF bext_chunk_size > 0 THEN write_bext_chunk(f.bext_chunk[1]) ELSE <<>>)
            \o fmt_ \o set_u32(format_chunk_size, "Little")
            \o set_u16(1, "Little")
            \o set_u16(num_channel(f), "Little")
            \o set_u32(f.sample_rate, "Little")
            \o set_u32((num_channel(f) * f.sample_rate * f.bit_depth) \div 8, "Little")
            \o set_u16(num_channel(f) * (f.bit_depth \div 8), "Little")
            \o set_u16(f.bit_depth, "Little")
            \o (IF cue_chunk_size > 0 THEN write_cue_chunk(f.markers) ELSE <<>>)
            \o (IF list_chunk_size > 0 THEN write_list_adtl_chunk(f.markers) ELSE <<>>)
            \o (IF acid_chunk_size > 0 THEN write_acid_chunk(num_sample(f), f.sample_rate) ELSE <<>>)
            \o data \o set_u32(data_chunk_size, "Little")
    IN  IF loop.stop # "done"
        THEN [bytes |-> head, written |-> FALSE, panic |-> loop.stop = "panic"]
        ELSE [bytes |-> head \o loop.bytes
                        \o (IF i_xmlchunk_size > 0
                            THEN iXML \o set_u32(i_xmlchunk_size, "Little") \o f.xml_chunk
                            ELSE <<>>),
              written |-> TRUE, panic |-> FALSE]

\* save_aiff : [bytes, written]
save_aiff(f) ==
    LET num_bytes_per_sample == f.bit_depth \div 8
        num_bytes_per_frame == num_bytes_per_sample * num_channel(f)
        total_num_audio_sample_bytes == num_sample(f) * num_bytes_per_frame
        sound_data_chunk_size == total_num_audio_sample_bytes + 8
        i_xmlchunk_size == Len(f.xml_chunk)
        file_size_in_bytes ==
            4 + 26 + 16 + total_num_audio_sample_bytes
            + (IF i_xmlchunk_size > 0 THEN 8 + i_xmlchunk_size ELSE 0)
        loop == SampleLoop(f, "Big")
        head ==
            FORM \o set_u32(file_size_in_bytes, "Big") \o AIFF
            \o COMM \o set_u32(18, "Big")
            \o set_u16(num_channel(f), "Big")
            \o set_u32(num_sample(f), "Big")
            \o set_u16(f.bit_depth, "Big")
            \o set_aiff_sample_rate(f.sample_rate)
            \o SSND \o set_u32(sound_data_chunk_size, "Big")
            \o set_u32(0, "Big") \o set_u32(0, "Big")
    IN  IF loop.stop # "done"
        THEN [bytes |-> head, written |-> FALSE, panic |-> loop.stop = "panic"]
        ELSE [bytes |-> head \o loop.bytes
                        \o (IF i_xmlchunk_size > 0
                            THEN iXML \o set_u32(i_xmlchunk_size, "Big") \o f.xml_chunk
                            ELSE <<>>),
              written |-> TRUE, panic |-> FALSE]

(***************************************************************************)
(* AudioFile : the object, its constructors and its setters.  bext_chunk   *)
(* is <<>> for None and <<b>> for Some(b); tempo is TRUE for               *)
(* Some(TempoInfo::new(120.0)).                                            *)
(***************************************************************************)
FileFormat == {"None", "NotLoaded", "Wav", "Aiff"}

\* the f64 values a caller stores : -1.5, -0.5, 0, 0.5 and 1.5
SampleValue == {Ratio(n, 2) : n \in {-3, -1, 0, 1, 3}}

\* mono and stereo
Layout == {1, 2}

\* the bit depths a caller sets : the four supported ones and 12
BitDepth == {8, 16, 24, 32, 12}

\* AudioFile::new
AudioFile_new(channels, samples) ==
    [audio_buffer |-> [c \in 1..channels |-> [i \in 1..samples |-> Ratio(0, 1)]],
     xml_chunk |-> <<>>,
     file_format |-> "None",
     sample_rate |-> 44100,
     bit_depth |-> 16,
     bext_chunk |-> <<>>,
     markers |-> <<>>,
     tempo |-> FALSE]

\* AudioFile::default
AudioFile_default ==
    [audio_buffer |-> << <<>> >>,
     xml_chunk |-> <<>>,
     file_format |-> "NotLoaded",
     sample_rate |-> 44100,
     bit_depth |-> 16,
     bext_chunk |-> <<>>,
     markers |-> <<>>,
     tempo |-> FALSE]

\* what a call leaves in outcome
Outcome(op, written, panic) == [op |-> op, written |-> written, panic |-> panic]

\* AudioFile::set_sample : indices outside the buffer are ignored
AudioFile_set_sample(channel, sample, value) ==
    /\ audiofile' =
         IF channel < num_channel(audiofile) /\ sample < Len(audiofile.audio_buffer[channel + 1])
         THEN [audiofile EXCEPT !.audio_buffer[channel + 1][sample + 1] = value]
         ELSE audiofile
    /\ bytes' = <<>>
    /\ outcome' = Outcome("set", FALSE, FALSE)
    /\ reloaded' = <<>>
    /\ UNCHANGED <<dspVars, bufVars, rtVars>>

\* AudioFile::set_bit_depth
AudioFile_set_bit_depth(bit_depth) ==
    /\ audiofile' = [audiofile EXCEPT !.bit_depth = bit_depth]
    /\ bytes' = <<>>
    /\ outcome' = Outcome("set", FALSE, FALSE)
    /\ reloaded' = <<>>
    /\ UNCHANGED <<dspVars, bufVars, rtVars>>

\* AudioFile::save : save_wav, save_aiff or nothing
Save(f, format) ==
    CASE format = "Wav" -> save_wav_internal(f, FALSE)
      [] format = "Aiff" -> save_aiff(f)
      [] OTHER -> [bytes |-> <<>>, written |-> FALSE, panic |-> FALSE]

AudioFile_save(format) ==
    LET saved == Save(audiofile, format)
    IN  /\ bytes' = saved.bytes
        /\ outcome' = Outcome(format, saved.written, saved.panic)
        /\ reloaded' = <<>>
        /\ UNCHANGED <<audiofile, dspVars, bufVars, rtVars>>

\* byte k (0 is the lowest) of the n-byte two's complement of v
TwosComplementByte(v, k) ==
    IF v >= 0 THEN (v \div Pow256(k)) % 256
    ELSE 255 - (((-v - 1) \div Pow256(k)) % 256)

\* the integer the claim gives for a sample: the nearer bound for a sample
\* outside [-1, 1], times the peak, the fraction dropped
Encoded(s, bit_depth) ==
    LET peak == CASE bit_depth = 8 -> 127 [] bit_depth = 16 -> 32767
                  [] bit_depth = 24 -> 8388607 [] bit_depth = 32 -> 2147483647
    IN  CASE s[1] >= s[2] -> peak
          [] s[1] <= -s[2] -> -peak
          [] s = <<1, 2>> -> (peak - 1) \div 2
          [] s = <<-1, 2>> -> -((peak - 1) \div 2)
          [] s[1] = 0 -> 0

\* the sample payload the claim gives for file f: frame after frame, in each
\* frame channel after channel, lowest byte first in a WAV and highest first
\* in an AIFF
Payload(f, format) ==
    LET w == f.bit_depth \div 8
        nc == num_channel(f)
    IN  [j \in 1..(num_sample(f) * nc * w) |->
           LET cell == (j - 1) \div w
               byte == (j - 1) % w
               v == Encoded(f.audio_buffer[(cell % nc) + 1][(cell \div nc) + 1], f.bit_depth)
           IN  TwosComplementByte(v, IF format = "Wav" THEN byte ELSE w - 1 - byte)]

\* the last n bytes of seq
Last(seq, n) == SubSeq(seq, Len(seq) - n + 1, Len(seq))

\* the two examples
ExampleWav ==
    [AudioFile_new(2, 4) EXCEPT !.audio_buffer =
        << <<Ratio(1, 1), Ratio(0, 1), Ratio(0, 1), Ratio(0, 1)>>,
           <<Ratio(0, 1), Ratio(0, 1), Ratio(0, 1), Ratio(-1, 1)>> >>]
ExampleAiff ==
    [AudioFile_new(2, 1) EXCEPT !.audio_buffer = << <<Ratio(1, 2)>>, <<Ratio(-1, 2)>> >>,
                                !.bit_depth = 24]

\* C18: a file written by save holds, after its headers, the samples frame by
\* frame and channel by channel, each clamped to [-1, 1], multiplied by the
\* peak of the bit depth, cut toward zero and laid out in the byte order of
\* the container; the 16-bit WAV and the 24-bit AIFF examples give the bytes
\* the claim lists.
C18_SampleEncoding ==
    /\ (outcome.op \in {"Wav", "Aiff"} /\ outcome.written
          /\ audiofile.bit_depth \in {8, 16, 24, 32}) =>
          Last(bytes, Len(Payload(audiofile, outcome.op))) = Payload(audiofile, outcome.op)
    /\ outcome.op = "new" =>
          /\ Last(save_wav_internal(ExampleWav, FALSE).bytes, 16)
               = <<255, 127, 0, 0, 0, 0, 0, 0, 0, 0, 0, 0, 0, 0, 1, 128>>
          /\ Last(save_aiff(ExampleAiff).bytes, 6) = <<63, 255, 255, 192, 0, 1>>

\* a stereo file holding a sample above 1, a sample below -1 and a negative
\* fraction has been written
C18_Witness ==
    /\ outcome.op \in {"Wav", "Aiff"} /\ outcome.written
    /\ num_channel(audiofile) = 2 /\ num_sample(audiofile) >= 1
    /\ audiofile.audio_buffer[1][1] = Ratio(3, 2)
    /\ audiofile.audio_buffer[2][1] \in {Ratio(-3, 2), Ratio(-1, 2)}

(***************************************************************************)
(* SpecChunks : the metadata of an AudioFile (bit depth, sample rate,      *)
(* bext chunk, markers, tempo, iXML text) set by the caller, and the mono   *)
(* file saved as WAV, as BWF and as AIFF.                                  *)
(***************************************************************************)
\* a text of n bytes
Text(n) == [i \in 1..n |-> 120]

\* the marker labels a caller gives : none, one byte (no padding), two bytes
Labels == {Text(0), Text(1), Text(2)}

\* the sample rates a caller sets : one of the AIFF table, one that is not
SampleRates == {44100, 12345}

\* BextChunk::default
BextChunk_default ==
    [description |-> <<>>, originator |-> <<>>, originator_reference |-> <<>>,
     origination_date |-> <<>>, origination_time |-> <<>>,
     time_reference |-> 0, version |-> 2, coding_history |-> <<>>]

\* AudioFile::set_sample_rate
AudioFile_set_sample_rate(sample_rate) ==
    /\ audiofile' = [audiofile EXCEPT !.sample_rate = sample_rate]
    /\ bytes' = <<>>
    /\ outcome' = Outcome("set", FALSE, FALSE)
    /\ reloaded' = <<>>
    /\ UNCHANGED <<dspVars, bufVars, rtVars>>

\* AudioFile::set_bext
AudioFile_set_bext(b) ==
    /\ audiofile' = [audiofile EXCEPT !.bext_chunk = <<b>>]
    /\ bytes' = <<>>
    /\ outcome' = Outcome("set", FALSE, FALSE)
    /\ reloaded' = <<>>
    /\ UNCHANGED <<dspVars, bufVars, rtVars>>

\* Marker::new and Marker::with_id
Marker_new(position, label) == [id |-> 0, position |-> position, label |-> label]
Marker_with_id(id, position, label) == [id |-> id, position |-> position, label |-> label]

\* self.markers.iter().map(|m| m.id).max().unwrap_or(0)
RECURSIVE max_id(_)
max_id(markers) ==
    IF markers = <<>> THEN 0
    ELSE LET rest == max_id(Tail(markers))
         IN  IF Head(markers).id > rest THEN Head(markers).id ELSE rest

\* sort_by_key(|m| m.position), a stable sort : each marker goes behind the
\* markers before it that are not later than it
RECURSIVE sort_by_key(_)
sort_by_key(markers) ==
    IF markers = <<>> THEN <<>>
    ELSE LET sorted == sort_by_key(SubSeq(markers, 1, Len(markers) - 1))
             m == markers[Len(markers)]
             k == Cardinality({i \in 1..Len(sorted) : sorted[i].position <= m.position})
         IN  SubSeq(sorted, 1, k) \o <<m>> \o SubSeq(sorted, k + 1, Len(sorted))

\* AudioFile::add_marker with the largest id taken from the number of markers
add_marker_len(f, marker) ==
    [f EXCEPT !.markers = sort_by_key(Append(@,
        IF marker.id = 0 THEN [marker EXCEPT !.id = Len(f.markers) + 1] ELSE marker))]

\* AudioFile::add_marker : a marker of id 0 gets the largest id + 1, the
\* marker is pushed and the markers are sorted by position
add_marker(f, marker) ==
    [f EXCEPT !.markers = sort_by_key(Append(@,
        IF marker.id = 0 THEN [marker EXCEPT !.id = max_id(f.markers) + 1] ELSE marker))]

AudioFile_add_marker(marker) ==
    /\ audiofile' = add_marker(audiofile, marker)
    /\ bytes' = <<>>
    /\ outcome' = [op |-> "add_marker", written |-> FALSE, panic |-> FALSE,
                   marker |-> marker]
    /\ reloaded' = <<>>
    /\ UNCHANGED <<dspVars, bufVars, rtVars>>

\* AudioFile::set_tempo(120.0)
AudioFile_set_tempo ==
    /\ audiofile' = [audiofile EXCEPT !.tempo = TRUE]
    /\ bytes' = <<>>
    /\ outcome' = Outcome("set", FALSE, FALSE)
    /\ reloaded' = <<>>
    /\ UNCHANGED <<dspVars, bufVars, rtVars>>

\* an assignment to the public field xml_chunk
AudioFile_set_xml_chunk(text) ==
    /\ audiofile' = [audiofile EXCEPT !.xml_chunk = text]
    /\ bytes' = <<>>
    /\ outcome' = Outcome("set", FALSE, FALSE)
    /\ reloaded' = <<>>
    /\ UNCHANGED <<dspVars, bufVars, rtVars>>

\* AudioFile::save_bwf : a missing bext chunk is created, then the file is
\* written with it
AudioFile_save_bwf ==
    LET f == IF audiofile.bext_chunk = <<>>
             THEN [audiofile EXCEPT !.bext_chunk = <<BextChunk_default>>]
             ELSE audiofile
        saved == save_wav_internal(f, TRUE)
    IN  /\ audiofile' = f
        /\ bytes' = saved.bytes
        /\ outcome' = Outcome("Bwf", saved.written, saved.panic)
        /\ reloaded' = <<>>
        /\ UNCHANGED <<dspVars, bufVars, rtVars>>

InitSpecChunks ==
    /\ \E samples \in 0..MaxFileSamples : audiofile = AudioFile_new(1, samples)
    /\ bytes = <<>>
    /\ outcome = Outcome("new", FALSE, FALSE)
    /\ reloaded = <<>>
    /\ InitNoBuffers /\ InitRealtime /\ InitNoDsp

NextChunks ==
    \/ \E bit_depth \in BitDepth : AudioFile_set_bit_depth(bit_depth)
    \/ \E sample_rate \in SampleRates : AudioFile_set_sample_rate(sample_rate)
    \/ \E n \in 0..MaxText :
          AudioFile_set_bext([BextChunk_default EXCEPT !.coding_history = Text(n)])
    \/ \E label \in Labels :
          /\ Len(audiofile.markers) < MaxMarkers
          /\ AudioFile_add_marker(Marker_new(0, label))
    \/ AudioFile_set_tempo
    \/ \E n \in 0..MaxText : AudioFile_set_xml_chunk(Text(n))
    \/ \E format \in {"Wav", "Aiff"} : AudioFile_save(format)
    \/ AudioFile_save_bwf

SpecChunks == InitSpecChunks /\ [][NextChunks]_vars

\* the unsigned number in the four bytes of file from byte offset at on
\* (offsets count from 0), lowest byte first or highest byte first
FieldLE(file, at) ==
    file[at + 1] + 256 * file[at + 2] + 65536 * file[at + 3] + 16777216 * file[at + 4]
FieldBE(file, at) ==
    file[at + 4] + 256 * file[at + 3] + 65536 * file[at + 2] + 16777216 * file[at + 1]

\* a file with one of the optional chunks, an iXML text of odd length and a
\* supported depth has been written as WAV or BWF
HasOptionalChunks ==
    /\ outcome.op \in {"Wav", "Bwf"} /\ outcome.written
    /\ audiofile.markers # <<>> /\ audiofile.markers[1].label # <<>>
    /\ audiofile.tempo /\ audiofile.xml_chunk # <<>>
    /\ num_sample(audiofile) > 0

\* C19: in every WAV or BWF file written, whatever optional chunks it has,
\* the little-endian number in bytes 4..7 is the length of the file less 8;
\* 44100 mono 16-bit samples without optional chunks give 88244 bytes.
C19_RiffSize ==
    /\ (outcome.op \in {"Wav", "Bwf"} /\ outcome.written) =>
          FieldLE(bytes, 4) = Len(bytes) - 8
    /\ (outcome.op = "new" /\ num_sample(audiofile) = 0) =>
          LET saved == save_wav_internal(AudioFile_new(1, 44100), FALSE)
          IN  saved.written /\ Len(saved.bytes) = 88244

\* a BWF file with a bext chunk, a cue chunk, a LIST chunk, an acid chunk and
\* an iXML chunk has been written
C19_Witness == HasOptionalChunks /\ outcome.op = "Bwf"

\* the chunk ids the encoders write
ChunkIds == {fmt_, data, bext, cue_, LIST, acid, iXML, COMM, SSND}

\* the chunks from offset at on, each as long as its header declares, are of
\* known ids and end where the file ends
RECURSIVE ChunksFill(_, _, _)
ChunksFill(file, at, little) ==
    IF at = Len(file) THEN TRUE
    ELSE /\ at + 8 <= Len(file)
         /\ SubSeq(file, at + 1, at + 4) \in ChunkIds
         /\ LET size == IF little THEN FieldLE(file, at + 4) ELSE FieldBE(file, at + 4)
            IN  /\ at + 8 + size <= Len(file)
                /\ ChunksFill(file, at + 8 + size, little)

\* C20: every file an encoder writes declares the sizes its bytes have: the
\* container size is the length of the file less 8 and the chunks, each as
\* long as declared, fill the file; so an AIFF file with a sample rate that
\* is not in the table, or a file with an unsupported bit depth, is not
\* written.
C20_DeclaredSizesAgree ==
    (outcome.op \in {"Wav", "Bwf", "Aiff"} /\ outcome.written) =>
        /\ Len(bytes) >= 12
        /\ (IF outcome.op = "Aiff" THEN FieldBE(bytes, 4) ELSE FieldLE(bytes, 4)) = Len(bytes) - 8
        /\ ChunksFill(bytes, 12, outcome.op # "Aiff")

\* what save_aiff does: the file is written whatever the sample rate, and
\* it is a well-formed one exactly when the rate is in the table
AiffRateInTable ==
    (outcome.op = "Aiff" /\ outcome.written) =>
        ((/\ FieldBE(bytes, 4) = Len(bytes) - 8
          /\ ChunksFill(bytes, 12, FALSE))
         <=> audiofile.sample_rate = 44100)

(***************************************************************************)
(* audiofile: the decoders.  Offsets into a byte vector count from 0, as   *)
(* in the code.  A decoder answers [file, panic]: the AudioFile as it is   *)
(* when the function returns or panics, and whether it panicked (a slice   *)
(* or an idx outside the vector).  The 32-bit fields of the modelled     *)
(* inputs are below 2^31.                                                  *)
(***************************************************************************)
\* buffer[from..to]
Slice(buf, from, to) == SubSeq(buf, from + 1, to)

\* String::from_utf8(..).is_ok() for the id slices of the modelled inputs,
\* whose bytes from 128 on are never part of a well-formed sequence
Utf8(seq) == \A i \in 1..Len(seq) : seq[i] < 128

\* u8::cast_signed
cast_signed(byte) == IF byte < 128 THEN byte ELSE byte - 256

\* get_u16 : the branch Little puts the first byte highest, the branch Big
\* the first byte lowest; 0 when the vector is too short
get_u16(buf, start, endianness) ==
    IF Len(buf) >= start + 2
    THEN IF endianness = "Big"
         THEN buf[start + 2] * 256 + buf[start + 1]
         ELSE buf[start + 1] * 256 + buf[start + 2]
    ELSE 0

\* get_u32 : as get_u16
get_u32(buf, start, endianness) ==
    IF Len(buf) >= start + 4
    THEN IF endianness = "Big"
         THEN buf[start + 4] * 16777216 + buf[start + 3] * 65536
              + buf[start + 2] * 256 + buf[start + 1]
         ELSE buf[start + 1] * 16777216 + buf[start + 2] * 65536
              + buf[start + 3] * 256 + buf[start + 4]
    ELSE 0

\* get_u32(..).cast_signed()
get_i32(buf, start, endianness) ==
    IF Len(buf) >= start + 4
    THEN IF endianness = "Big"
         THEN cast_signed(buf[start + 4]) * 16777216 + buf[start + 3] * 65536
              + buf[start + 2] * 256 + buf[start + 1]
         ELSE cast_signed(buf[start + 1]) * 16777216 + buf[start + 2] * 65536
              + buf[start + 3] * 256 + buf[start + 4]
    ELSE 0

\* get_index_of_chunk : the offset of the chunk id, 0 when it is not found
RECURSIVE get_index_of_chunk(_, _, _, _)
get_index_of_chunk(buf, chunk, idx, endianness) ==
    IF idx < Len(buf) - 4
    THEN IF Slice(buf, idx, idx + 4) = chunk THEN idx
         ELSE IF idx + 4 + 4 >= Len(buf) THEN 0
         ELSE get_index_of_chunk(buf, chunk,
                                 idx + 4 + 4 + get_u32(buf, idx + 4, endianness),
                                 endianness)
    ELSE 0

\* WavAudioFormat::from_num(..).is_some()
from_num_is_some(num) == num \in {1, 3, 6, 7, 65534}

\* get_aiff_sample_rate : the rate of the table whose ten bytes are at start,
\* 0 when there is none
get_aiff_sample_rate(buf, start) ==
    LET hits == {i \in 1..Len(AIFF_SAMPLE_RATE_TABLE) :
                    /\ start + 10 <= Len(buf)
                    /\ Slice(buf, start, start + 10) = AIFF_SAMPLE_RATE_TABLE[i][2]}
    IN  IF hits = {} THEN 0 ELSE AIFF_SAMPLE_RATE_TABLE[CHOOSE i \in hits : TRUE][1]

\* FileFormat::determine for a vector of four bytes or more
determine(vector) ==
    IF Utf8(Slice(vector, 0, 4)) /\ Slice(vector, 0, 4) = RIFF THEN "Wav"
    ELSE IF Utf8(Slice(vector, 0, 4)) /\ Slice(vector, 0, 4) = Form THEN "Aiff"
    ELSE "None"

\* the 24-bit sample of read_wav and read_aiff : the upper bits are set when
\* bit 23 is clear
sign_extend_24(sample) == IF sample < 8388608 THEN sample - 16777216 ELSE sample

\* f32::from_bits(sample) as f64 for the bit patterns of 0.0, 0.5 and 1.0
f32_from_bits(sample) ==
    CASE sample = 0 -> Ratio(0, 1)
      [] sample = 1056964608 -> Ratio(1, 2)
      [] sample = 1065353216 -> Ratio(1, 1)

\* the value read_wav pushes for the sample at sample_index
wav_sample(buf, sample_index, bit_depth, float) ==
    CASE bit_depth = 8 -> Ratio(cast_signed(buf[sample_index + 1]), 127)
      [] bit_depth = 16 ->
           LET u == get_u16(buf, sample_index, "Little")
           IN  Ratio(IF u < 32768 THEN u ELSE u - 65536, 32767)
      [] bit_depth = 24 ->
           Ratio(sign_extend_24(buf[sample_index + 3] * 65536
                                + buf[sample_index + 2] * 256
                                + buf[sample_index + 1]), 8388607)
      [] bit_depth = 32 ->
           IF float THEN f32_from_bits(get_u32(buf, sample_index, "Little"))
           ELSE Ratio(get_i32(buf, sample_index, "Little"), 2147483647)

\* the value read_aiff pushes for the sample at sample_index
aiff_sample(buf, sample_index, bit_depth, float) ==
    CASE bit_depth = 8 -> Ratio(cast_signed(buf[sample_index + 1]), 127)
      [] bit_depth = 16 -> Ratio(get_u16(buf, sample_index, "Big"), 65535)
      [] bit_depth = 24 ->
           Ratio(sign_extend_24(buf[sample_index + 1] * 65536
                                + buf[sample_index + 2] * 256
                                + buf[sample_index + 3]), 8388607)
      [] bit_depth = 32 ->
           IF float THEN f32_from_bits(get_u32(buf, sample_index, "Big"))
           ELSE Ratio(get_i32(buf, sample_index, "Big"), 2147483647)

\* the sample loops of read_wav and read_aiff from visit k on (idx k \div
\* channels, channel k % channels) : [audio_buffer, returned], returned when
\* the loop left the function at a sample that is not in the vector
RECURSIVE read_samples(_, _, _, _)
read_samples(buf, h, k, channels) ==
    IF k >= h.num_samples * h.num_channels
    THEN [audio_buffer |-> channels, returned |-> FALSE]
    ELSE LET idx == k \div h.num_channels
             channel == k % h.num_channels
             sample_index == h.samples_start_index + h.stride * idx
                             + channel * (h.bit_depth \div 8)
         IN  IF sample_index + (h.bit_depth \div 8) - 1 >= Len(buf)
             THEN [audio_buffer |-> channels, returned |-> TRUE]
             ELSE read_samples(buf, h, k + 1,
                     [channels EXCEPT ![channel + 1] =
                         Append(@, IF h.wav
                                   THEN wav_sample(buf, sample_index, h.bit_depth, h.float)
                                   ELSE aiff_sample(buf, sample_index, h.bit_depth, h.float))])

\* the string without the zero bytes at its end
RECURSIVE trim_end(_)
trim_end(seq) ==
    IF seq # <<>> /\ seq[Len(seq)] = 0 THEN trim_end(SubSeq(seq, 1, Len(seq) - 1)) ELSE seq

\* read_fixed_string
read_fixed_string(buf, start, len) ==
    IF start + len > Len(buf) THEN <<>> ELSE trim_end(Slice(buf, start, start + len))

\* read_bext_chunk : the fields the model of BextChunk has; the time
\* reference of the modelled inputs is 0
read_bext_chunk(buf, idx) ==
    LET chunk_size == get_u32(buf, idx + 4, "Little")
        data_start == idx + 8
        coding_history_start == data_start + 602
        chunk_end == idx + 8 + chunk_size
    IN  [description |-> read_fixed_string(buf, data_start, 256),
         originator |-> read_fixed_string(buf, data_start + 256, 32),
         originator_reference |-> read_fixed_string(buf, data_start + 288, 32),
         origination_date |-> read_fixed_string(buf, data_start + 320, 10),
         origination_time |-> read_fixed_string(buf, data_start + 330, 8),
         time_reference |-> 0,
         version |-> get_u16(buf, data_start + 346, "Little"),
         coding_history |->
            IF coding_history_start < Len(buf) /\ chunk_end <= Len(buf)
               /\ chunk_end >= coding_history_start
            THEN read_fixed_string(buf, coding_history_start, chunk_end - coding_history_start)
            ELSE <<>>]

\* read_cue_chunk : the markers of the cue points that lie in the vector
RECURSIVE read_cue_points(_, _, _, _)
read_cue_points(buf, data_start, i, n) ==
    IF i >= n \/ data_start + 4 + i * 24 + 24 > Len(buf) THEN <<>>
    ELSE << [id |-> get_u32(buf, data_start + 4 + i * 24, "Little"),
             position |-> get_u32(buf, data_start + 4 + i * 24 + 4, "Little")
                          + get_u32(buf, data_start + 4 + i * 24 + 20, "Little"),
             label |-> <<>>] >>
         \o read_cue_points(buf, data_start, i + 1, n)

read_cue_chunk(buf, idx) ==
    read_cue_points(buf, idx + 8, 0, get_u32(buf, idx + 8, "Little"))

\* read_marker_labels : the labels of the labl and note sub-chunks from pos on
RECURSIVE read_labels(_, _, _, _)
read_labels(buf, pos, chunk_end, markers) ==
    IF pos + 8 < chunk_end /\ pos + 8 < Len(buf)
    THEN LET sub_chunk_id == read_fixed_string(buf, pos, 4)
             sub_chunk_size == get_u32(buf, pos + 4, "Little")
             cue_id == get_u32(buf, pos + 8, "Little")
             label == read_fixed_string(buf, pos + 12, Max(sub_chunk_size - 4, 0))
             hits == {i \in 1..Len(markers) : markers[i].id = cue_id}
             first == CHOOSE i \in hits : \A j \in hits : i <= j
             named == IF sub_chunk_id \in {labl, <<110, 111, 116, 101>>} /\ hits # {}
                      THEN [markers EXCEPT ![first].label = label]
                      ELSE markers
         IN  read_labels(buf, pos + 8 + sub_chunk_size + (sub_chunk_size % 2),
                         chunk_end, named)
    ELSE markers

read_marker_labels(buf, idx, markers) ==
    IF idx + 8 + 4 > Len(buf) \/ read_fixed_string(buf, idx + 8, 4) # adtl
    THEN markers
    ELSE read_labels(buf, idx + 8 + 4,
                     idx + 8 + get_u32(buf, idx + 4, "Little"), markers)

\* read_acid_chunk(..).is_some() : the tempo decoded is a float above 0 and
\* below 1000, that is bits above 0 and below those of 1000.0
read_acid_chunk(buf, idx) ==
    /\ idx + 8 + 24 <= Len(buf)
    /\ get_i32(buf, idx + 8 + 20, "Little") > 0
    /\ get_i32(buf, idx + 8 + 20, "Little") < 1148846080

\* the end of read_wav, after the sample loop : the iXML text, whose slice
\* may lie outside the vector, then the bext, cue, LIST and acid chunks
read_wav_chunks(f, buf, index_of_xmlchunk) ==
    LET chunk_size == get_u32(buf, index_of_xmlchunk + 4, "Little")
        xml == Slice(buf, index_of_xmlchunk + 8, index_of_xmlchunk + 8 + chunk_size)
        f1 == IF index_of_xmlchunk > 0 /\ Utf8(xml) THEN [f EXCEPT !.xml_chunk = xml] ELSE f
        index_of_bext == get_index_of_chunk(buf, bext, 12, "Little")
        f2 == IF index_of_bext > 0
              THEN [f1 EXCEPT !.bext_chunk = <<read_bext_chunk(buf, index_of_bext)>>]
              ELSE f1
        index_of_cue == get_index_of_chunk(buf, cue_, 12, "Little")
        index_of_list == get_index_of_chunk(buf, LIST, 12, "Little")
        f3 == IF index_of_cue > 0
              THEN [f2 EXCEPT !.markers =
                      IF index_of_list > 0
                      THEN read_marker_labels(buf, index_of_list,
                                              read_cue_chunk(buf, index_of_cue))
                      ELSE read_cue_chunk(buf, index_of_cue)]
              ELSE f2
        index_of_acid == get_index_of_chunk(buf, acid, 12, "Little")
    IN  IF index_of_xmlchunk > 0 /\ index_of_xmlchunk + 8 + chunk_size > Len(buf)
        THEN [file |-> f, panic |-> TRUE]
        ELSE [file |-> IF index_of_acid > 0
                       THEN [f3 EXCEPT !.tempo = read_acid_chunk(buf, index_of_acid)]
                       ELSE f3,
              panic |-> FALSE]

\* read_wav
read_wav(f, buf) ==
    IF Len(buf) < 4 THEN [file |-> f, panic |-> TRUE]
    ELSE IF Utf8(Slice(buf, 0, 4)) /\ Slice(buf, 0, 4) # RIFF
    THEN [file |-> f, panic |-> FALSE]
    ELSE IF Len(buf) < 12 THEN [file |-> f, panic |-> TRUE]
    ELSE IF Utf8(Slice(buf, 8, 12)) /\ Slice(buf, 8, 12) # WAVE
    THEN [file |-> f, panic |-> FALSE]
    ELSE
    LET index_of_data_chunk == get_index_of_chunk(buf, data, 12, "Little")
        index_of_format_chunk == get_index_of_chunk(buf, fmt_, 12, "Little")
        index_of_xmlchunk == get_index_of_chunk(buf, iXML, 12, "Little")
        audio_format == get_u16(buf, index_of_format_chunk + 8, "Little")
        num_channels == get_u16(buf, index_of_format_chunk + 10, "Little")
        sample_rate == get_u32(buf, index_of_format_chunk + 12, "Little")
        num_bytes_per_second == get_u32(buf, index_of_format_chunk + 16, "Little")
        num_bytes_per_block == get_u16(buf, index_of_format_chunk + 20, "Little")
        bit_depth == get_u16(buf, index_of_format_chunk + 22, "Little")
        g == [f EXCEPT !.sample_rate = sample_rate, !.bit_depth = bit_depth]
        data_chunk_size == get_u32(buf, index_of_data_chunk + 4, "Little")
        h == [num_channels |-> num_channels,
              num_samples |-> data_chunk_size \div ((num_channels * bit_depth) \div 8),
              samples_start_index |-> index_of_data_chunk + 8,
              stride |-> num_bytes_per_block,
              bit_depth |-> bit_depth,
              float |-> audio_format = 3,
              wav |-> TRUE]
        loop == read_samples(buf, h, 0, [c \in 1..num_channels |-> <<>>])
    IN  IF \/ bit_depth > 64
           \/ ~from_num_is_some(audio_format)
           \/ num_channels < 1 \/ num_channels > 128
           \/ num_bytes_per_second # (num_channels * sample_rate * bit_depth) \div 8
           \/ num_bytes_per_block # num_channels * num_bytes_per_second
           \/ bit_depth \notin {8, 16, 24, 32}
        THEN [file |-> g, panic |-> FALSE]
        ELSE IF loop.returned
        THEN [file |-> [g EXCEPT !.audio_buffer = loop.audio_buffer], panic |-> FALSE]
        ELSE read_wav_chunks([g EXCEPT !.audio_buffer = loop.audio_buffer], buf,
                             index_of_xmlchunk)

\* read_aiff
read_aiff(f, buf) ==
    IF Len(buf) < 4 THEN [file |-> f, panic |-> TRUE]
    ELSE IF Utf8(Slice(buf, 0, 4)) /\ Slice(buf, 0, 4) # FORM
    THEN [file |-> f, panic |-> FALSE]
    ELSE IF Len(buf) < 12 THEN [file |-> f, panic |-> TRUE]
    ELSE IF ~Utf8(Slice(buf, 8, 12)) THEN [file |-> f, panic |-> FALSE]
    ELSE
    LET index_of_comm_chunk == get_index_of_chunk(buf, COMM, 12, "Big")
        index_of_sound_data_chunk == get_index_of_chunk(buf, SSND, 12, "Big")
        index_of_xmlchunk == get_index_of_chunk(buf, iXML, 12, "Big")
        num_channels == get_u16(buf, index_of_comm_chunk + 8, "Big")
        num_samples_per_channel == get_u32(buf, index_of_comm_chunk + 10, "Big")
        bit_depth == get_u16(buf, index_of_comm_chunk + 14, "Big")
        sample_rate == get_aiff_sample_rate(buf, index_of_comm_chunk + 16)
        g == [f EXCEPT !.sample_rate = sample_rate, !.bit_depth = bit_depth]
        sound_data_chunk_size == get_u32(buf, index_of_sound_data_chunk + 4, "Big")
        offset == get_u32(buf, index_of_sound_data_chunk + 8, "Big")
        num_bytes_per_frame == (bit_depth \div 8) * num_channels
        total_num_audio_sample_bytes == num_samples_per_channel * num_bytes_per_frame
        samples_start_index == index_of_sound_data_chunk + 16 + offset
        h == [num_channels |-> num_channels,
              num_samples |-> num_samples_per_channel,
              samples_start_index |-> samples_start_index,
              stride |-> num_bytes_per_frame,
              bit_depth |-> bit_depth,
              float |-> Slice(buf, 8, 12) = AIFC,
              wav |-> FALSE]
        loop == read_samples(buf, h, 0, [c \in 1..num_channels |-> <<>>])
        decoded == [g EXCEPT !.audio_buffer = loop.audio_buffer]
        chunk_size == get_u32(buf, index_of_xmlchunk + 4, "Little")
        xml == Slice(buf, index_of_xmlchunk + 8, index_of_xmlchunk + 8 + chunk_size)
    IN  IF \/ index_of_sound_data_chunk = 0 \/ index_of_comm_chunk = 0
           \/ Slice(buf, 8, 12) \notin {AIFF, AIFC}
        THEN [file |-> f, panic |-> FALSE]
        ELSE IF \/ bit_depth > 64 \/ sample_rate = 0
                \/ num_channels < 1 \/ num_channels > 2
                \/ bit_depth \notin {8, 16, 24, 32}
        THEN [file |-> g, panic |-> FALSE]
        ELSE IF sound_data_chunk_size < 8 \/ samples_start_index > Len(buf)
        THEN [file |-> g, panic |-> TRUE]    \* a subtraction below 0, checked build
        ELSE IF \/ sound_data_chunk_size - 8 # total_num_audio_sample_bytes
                \/ total_num_audio_sample_bytes > Len(buf) - samples_start_index
        THEN [file |-> g, panic |-> FALSE]
        ELSE IF loop.returned THEN [file |-> decoded, panic |-> FALSE]
        ELSE IF index_of_xmlchunk + 8 + chunk_size > Len(buf)
        THEN [file |-> decoded, panic |-> TRUE]
        ELSE [file |-> IF Utf8(xml) THEN [decoded EXCEPT !.xml_chunk = xml] ELSE decoded,
              panic |-> FALSE]

\* AudioFile::load_bytes : determine panics on a vector of fewer than four
\* bytes, before the format is assigned
load_bytes(f, vector) ==
    IF Len(vector) < 4 THEN [file |-> f, panic |-> TRUE]
    ELSE LET g == [f EXCEPT !.file_format = determine(vector)]
         IN  CASE g.file_format = "Wav" -> read_wav(g, vector)
               [] g.file_format = "Aiff" -> read_aiff(g, vector)
               [] OTHER -> [file |-> g, panic |-> FALSE]

(***************************************************************************)
(* SpecAudioFile : an AudioFile resized, written to and loaded from byte   *)
(* vectors.                                                                *)
(***************************************************************************)
\* a WAV file of 8-bit samples at 1 Hz with the numbers of its headers laid
\* out the way get_u16 and get_u32 read them, frames samples a channel
TestWav(channels, frames, tail) ==
    RIFF \o ZeroBytes(4) \o WAVE
    \o fmt_ \o set_u32(16, "Big")
    \o set_u16(1, "Big") \o set_u16(channels, "Big")
    \o set_u32(1, "Big") \o set_u32(channels, "Big")
    \o set_u16(channels * channels, "Big") \o set_u16(8, "Big")
    \o data \o set_u32(channels * frames, "Big")
    \o [i \in 1..(channels * channels * (frames - 1) + channels) |-> 127]
    \o tail

\* an iXML chunk that declares a text longer than the file
LongText == iXML \o set_u32(8, "Big") \o Text(1)

\* the byte vectors of length n and more that are the beginning of file
Prefixes(file, n) == {SubSeq(file, 1, k) : k \in n..Len(file)}

\* the byte vectors given to load_bytes : the empty one and the other
\* beginnings of a RIFF header, files written by save, whole and cut, the
\* same AIFF file under the id Form, stereo and mono WAV files of the other
\* layout, whole and cut, one with an iXML chunk, and other bytes
Vectors ==
    Prefixes(RIFF \o ZeroBytes(4) \o WAVE, 0)
    \cup Prefixes(save_wav_internal(AudioFile_new(2, MaxFileSamples), FALSE).bytes,
                  43 + 4 * MaxFileSamples)
    \cup {save_aiff(AudioFile_new(1, MaxFileSamples)).bytes,
          Form \o SubSeq(save_aiff(AudioFile_new(1, MaxFileSamples)).bytes, 5,
                         54 + 2 * MaxFileSamples)}
    \cup Prefixes(TestWav(2, MaxFileSamples + 1, <<>>), 43)
    \cup {TestWav(1, MaxFileSamples, <<>>), TestWav(1, MaxFileSamples, LongText),
          ZeroBytes(12)}

\* the Buffer<f64> values given to from_buffer and from_buffers
Buffers == {[i \in 1..n |-> Ratio(1, 2)] : n \in 0..MaxFileSamples}

\* Vec::resize(n, value)
resize(vec, n, value) == [i \in 1..n |-> IF i <= Len(vec) THEN vec[i] ELSE value]

\* AudioFile::set_buffer_size
AudioFile_set_buffer_size(channel, sample) ==
    /\ audiofile' = [audiofile EXCEPT !.audio_buffer =
          [c \in 1..channel |->
              resize(resize(@, channel, [i \in 1..sample |-> Ratio(0, 1)])[c],
                     sample, Ratio(0, 1))]]
    /\ bytes' = <<>>
    /\ outcome' = Outcome("set", FALSE, FALSE)
    /\ reloaded' = <<>>
    /\ UNCHANGED <<dspVars, bufVars, rtVars>>

\* AudioFile::set_channels
AudioFile_set_channels(count) ==
    /\ audiofile' = [audiofile EXCEPT !.audio_buffer =
          resize(@, count, [i \in 1..num_sample(audiofile) |-> Ratio(0, 1)])]
    /\ bytes' = <<>>
    /\ outcome' = Outcome("set", FALSE, FALSE)
    /\ reloaded' = <<>>
    /\ UNCHANGED <<dspVars, bufVars, rtVars>>

\* AudioFile::set_samples
AudioFile_set_samples(count) ==
    /\ audiofile' = [audiofile EXCEPT !.audio_buffer =
          [c \in 1..Len(@) |-> resize(@[c], count, Ratio(0, 1))]]
    /\ bytes' = <<>>
    /\ outcome' = Outcome("set", FALSE, FALSE)
    /\ reloaded' = <<>>
    /\ UNCHANGED <<dspVars, bufVars, rtVars>>

\* the channel with the first min(len) values of the buffer copied into it
copy_from(ch, guard) ==
    [i \in 1..Len(ch) |-> IF i <= Len(guard) THEN guard[i] ELSE ch[i]]

\* AudioFile::from_buffer : a channel that does not exist is ignored
AudioFile_from_buffer(channel, buf) ==
    /\ audiofile' =
         IF channel < num_channel(audiofile)
         THEN [audiofile EXCEPT !.audio_buffer[channel + 1] = copy_from(@, buf)]
         ELSE audiofile
    /\ bytes' = <<>>
    /\ outcome' = Outcome("set", FALSE, FALSE)
    /\ reloaded' = <<>>
    /\ UNCHANGED <<dspVars, bufVars, rtVars>>

\* AudioFile::from_buffers : channel and buffer pairwise, as far as both go
AudioFile_from_buffers(buffers) ==
    /\ audiofile' = [audiofile EXCEPT !.audio_buffer =
          [c \in 1..Len(@) |-> IF c <= Len(buffers) THEN copy_from(@[c], buffers[c]) ELSE @[c]]]
    /\ bytes' = <<>>
    /\ outcome' = Outcome("set", FALSE, FALSE)
    /\ reloaded' = <<>>
    /\ UNCHANGED <<dspVars, bufVars, rtVars>>

\* AudioFile::load_bytes
AudioFile_load_bytes(vector) ==
    LET loaded == load_bytes(audiofile, vector)
    IN  /\ audiofile' = loaded.file
        /\ bytes' = vector
        /\ outcome' = Outcome("load", FALSE, loaded.panic)
        /\ reloaded' = <<>>
        /\ UNCHANGED <<dspVars, bufVars, rtVars>>

InitSpecAudioFile ==
    /\ \E channels \in 0..MaxFileChannels, samples \in 0..MaxFileSamples :
          audiofile = AudioFile_new(channels, samples)
    /\ bytes = <<>>
    /\ outcome = Outcome("new", FALSE, FALSE)
    /\ reloaded = <<>>
    /\ InitNoBuffers /\ InitRealtime /\ InitNoDsp

NextAudioFile ==
    \/ \E channels \in 0..MaxFileChannels, samples \in 0..MaxFileSamples :
          AudioFile_set_buffer_size(channels, samples)
    \/ \E count \in 0..MaxFileChannels : AudioFile_set_channels(count)
    \/ \E count \in 0..MaxFileSamples : AudioFile_set_samples(count)
    \/ \E channel \in 0..MaxFileChannels, sample \in 0..MaxFileSamples :
          AudioFile_set_sample(channel, sample, Ratio(1, 2))
    \/ \E channel \in 0..MaxFileChannels, buf \in Buffers : AudioFile_from_buffer(channel, buf)
    \/ \E buffers \in SeqsUpTo(Buffers, MaxFileChannels) : AudioFile_from_buffers(buffers)
    \/ \E vector \in Vectors : AudioFile_load_bytes(vector)

SpecAudioFile == InitSpecAudioFile /\ [][NextAudioFile]_vars

\* C17: all channels of the AudioFile have the same number of samples, also
\* after a load that stopped part-way through a cut file.
C17_ChannelsSameLength ==
    \A c \in 1..num_channel(audiofile) :
        Len(audiofile.audio_buffer[c]) = num_sample(audiofile)

\* the first four bytes of the vector last given to load_bytes
Magic == SubSeq(bytes, 1, 4)

\* the AIFF file among the vectors, as save wrote it
SavedAiff == save_aiff(AudioFile_new(1, MaxFileSamples)).bytes

\* C14: load_bytes chooses the decoder by the first four bytes: RIFF makes
\* the format Wav, FORM makes it Aiff and a well-formed AIFF file is then
\* decoded, any other four bytes make the format None and nothing else of
\* the AudioFile changes.
C14_MagicSelectsDecoder ==
    [][(outcome'.op = "load" /\ Len(bytes') >= 4) =>
          LET magic == SubSeq(bytes', 1, 4)
          IN  /\ magic = RIFF => audiofile'.file_format = "Wav"
              /\ magic = FORM => audiofile'.file_format = "Aiff"
              /\ bytes' = SavedAiff =>
                    /\ num_channel(audiofile') = 1
                    /\ num_sample(audiofile') = MaxFileSamples
              /\ magic \notin {RIFF, FORM} =>
                    audiofile' = [audiofile EXCEPT !.file_format = "None"]
      ]_vars

\* what determine does: RIFF gives Wav, Form gives Aiff, everything else,
\* FORM too, gives None
DetermineKnowsRiffAndForm ==
    (outcome.op = "load" /\ ~outcome.panic) =>
        audiofile.file_format = (CASE Magic = RIFF -> "Wav" [] Magic = Form -> "Aiff"
                                   [] OTHER -> "None")

\* C16: whatever bytes load_bytes is given, the empty vector and vectors
\* shorter than the 12-byte header among them, the call ends without a
\* panic.
C16_LoadNeverPanics == outcome.op = "load" => ~outcome.panic

\* where load_bytes panics: on fewer than 4 bytes, on a RIFF
\* vector of fewer than 12 bytes, and on an iXML text that passes the end
PanicsOnShortVectors ==
    (outcome.op = "load" /\ Len(bytes) < 4) => outcome.panic

(***************************************************************************)
(* SpecEncoder : a mono or stereo AudioFile::new, its samples and its bit  *)
(* depth set by the caller, saved as WAV and as AIFF, and the file read    *)
(* back by a new AudioFile.                                                *)
(***************************************************************************)
InitSpecEncoder ==
    /\ \E channels \in Layout, samples \in 0..MaxFileSamples :
          audiofile = AudioFile_new(channels, samples)
    /\ bytes = <<>>
    /\ outcome = Outcome("new", FALSE, FALSE)
    /\ reloaded = <<>>
    /\ InitNoBuffers /\ InitRealtime /\ InitNoDsp

\* AudioFile::default().load_bytes(..) on the file just written, by a second
\* object
AudioFile_load_saved ==
    LET loaded == load_bytes(AudioFile_default, bytes)
    IN  /\ outcome.written
        /\ reloaded' = <<loaded.file>>
        /\ outcome' = Outcome("load", TRUE, loaded.panic)
        /\ UNCHANGED <<audiofile, bytes, dspVars, bufVars, rtVars>>

NextEncoder ==
    \/ \E channel \in 0..2, sample \in 0..MaxFileSamples, value \in SampleValue :
          AudioFile_set_sample(channel, sample, value)
    \/ \E bit_depth \in BitDepth : AudioFile_set_bit_depth(bit_depth)
    \/ \E format \in FileFormat \ {"NotLoaded"} : AudioFile_save(format)
    \/ AudioFile_load_saved

SpecEncoder == InitSpecEncoder /\ [][NextEncoder]_vars

\* |x - y| <= 1/peak for two samples
Close(x, y, peak) ==
    LET diff == x[1] * y[2] - y[1] * x[2]
    IN  (IF diff < 0 THEN -diff ELSE diff) * peak <= x[2] * y[2]

\* C15: a WAV file written at 8, 16, 24 or 32 bits and read back gives the
\* channel count, the sample count, the sample rate and the bit depth it
\* was written from, every sample within 1/peak of the one written, and
\* 0.0 exactly for a sample written as 0.0.
C15_WavRoundTrip ==
    (reloaded # <<>> /\ Magic = RIFF /\ audiofile.bit_depth \in {8, 16, 24, 32}) =>
        /\ num_channel(reloaded[1]) = num_channel(audiofile)
        /\ num_sample(reloaded[1]) = num_sample(audiofile)
        /\ reloaded[1].sample_rate = audiofile.sample_rate
        /\ reloaded[1].bit_depth = audiofile.bit_depth
        /\ \A c \in 1..num_channel(audiofile) : \A i \in 1..num_sample(audiofile) :
              /\ Close(reloaded[1].audio_buffer[c][i], clamp(audiofile.audio_buffer[c][i]),
                       Peak(audiofile.bit_depth))
              /\ audiofile.audio_buffer[c][i][1] = 0 => reloaded[1].audio_buffer[c][i][1] = 0

\* what read_wav makes of a file save_wav_internal wrote: it reads the bit
\* depth of the fmt chunk with the bytes the other way round, gets a number
\* above 64 and returns with no sample decoded
WavReadBackDecodesNothing ==
    (reloaded # <<>> /\ Magic = RIFF /\ audiofile.bit_depth \in {8, 16, 24, 32}) =>
        /\ reloaded[1].audio_buffer = AudioFile_default.audio_buffer
        /\ reloaded[1].bit_depth = 256 * audiofile.bit_depth
        /\ reloaded[1].file_format = "Wav"

(***************************************************************************)
(* SpecMarkers : the markers of an AudioFile under add_marker,             *)
(* remove_marker, clear_markers and the load of files with a cue chunk.    *)
(***************************************************************************)
\* AudioFile::remove_marker : the first marker of that id is removed
remove_marker(f, id) ==
    LET hits == {i \in 1..Len(f.markers) : f.markers[i].id = id}
        pos == CHOOSE i \in hits : \A j \in hits : i <= j
    IN  IF hits = {} THEN [file |-> f, returned |-> FALSE]
        ELSE [file |-> [f EXCEPT !.markers =
                           SubSeq(@, 1, pos - 1) \o SubSeq(@, pos + 1, Len(@))],
              returned |-> TRUE]

AudioFile_remove_marker(id) ==
    /\ audiofile' = remove_marker(audiofile, id).file
    /\ bytes' = <<>>
    /\ outcome' = [op |-> "remove_marker", written |-> FALSE, panic |-> FALSE,
                   id |-> id, returned |-> remove_marker(audiofile, id).returned]
    /\ reloaded' = <<>>
    /\ UNCHANGED <<dspVars, bufVars, rtVars>>

\* AudioFile::clear_markers
AudioFile_clear_markers ==
    /\ audiofile' = [audiofile EXCEPT !.markers = <<>>]
    /\ bytes' = <<>>
    /\ outcome' = Outcome("clear_markers", FALSE, FALSE)
    /\ reloaded' = <<>>
    /\ UNCHANGED <<dspVars, bufVars, rtVars>>

\* the ids and the positions of the markers given to add_marker; id 0 is
\* the id of Marker::new
MarkerIds == 0..MaxMarkerId
Positions == 0..MaxPosition

\* a cue chunk with the points of markers in the order given, its numbers
\* laid out the way get_u32 reads them
TestCue(markers) ==
    cue_ \o set_u32(4 + Len(markers) * 24, "Big") \o set_u32(Len(markers), "Big")
    \o Flatten([i \in 1..Len(markers) |->
          set_u32(markers[i].id, "Big") \o set_u32(markers[i].position, "Big")
          \o data \o ZeroBytes(12)])

\* the files loaded : mono files of one sample with two cue points, at every
\* pair of positions
CueVectors ==
    {TestWav(1, 1, TestCue(<<Marker_with_id(1, p, <<>>), Marker_with_id(2, q, <<>>)>>)) :
        p \in Positions, q \in Positions}

InitSpecMarkers ==
    /\ audiofile = AudioFile_new(1, 0)
    /\ bytes = <<>>
    /\ outcome = Outcome("new", FALSE, FALSE)
    /\ reloaded = <<>>
    /\ InitNoBuffers /\ InitRealtime /\ InitNoDsp

NextMarkers ==
    \/ \E id \in MarkerIds, position \in Positions :
          /\ Len(audiofile.markers) < MaxCues
          /\ AudioFile_add_marker(Marker_with_id(id, position, <<>>))
    \/ \E id \in 0..(MaxMarkerId + 1) : AudioFile_remove_marker(id)
    \/ AudioFile_clear_markers
    \/ \E vector \in CueVectors : AudioFile_load_bytes(vector)

SpecMarkers == InitSpecMarkers /\ [][NextMarkers]_vars

\* markers in the order of their positions
Ordered(markers) ==
    \A i \in 1..Len(markers) : \A j \in i..Len(markers) :
        markers[i].position <= markers[j].position

\* C21: the markers of the AudioFile are in the order of their positions,
\* also after the load of a file whose cue points are in another order.
C21_MarkersOrdered == Ordered(audiofile.markers)

\* add_marker leaves the markers ordered whatever they were, remove_marker
\* and clear_markers leave ordered markers ordered
OrderedButForLoad ==
    [][/\ outcome'.op = "add_marker" => Ordered(audiofile'.markers)
       /\ (outcome'.op \in {"remove_marker", "clear_markers"} /\ Ordered(audiofile.markers))
             => Ordered(audiofile'.markers)
      ]_vars

\* the load of a file keeps the cue points in the order of the file
LoadKeepsFileOrder ==
    (outcome.op = "load" /\ ~outcome.panic) =>
        /\ Len(audiofile.markers) = 2
        /\ audiofile.markers[1].id = 1
        /\ audiofile.markers[2].id = 2

\* how many times x is in seq
Count(seq, x) == Cardinality({i \in 1..Len(seq) : seq[i] = x})

\* seq with x added, in some order
AddedTo(seq, x, longer) ==
    /\ Len(longer) = Len(seq) + 1
    /\ \A i \in 1..Len(longer) :
          Count(longer, longer[i]) = Count(seq, longer[i]) + (IF longer[i] = x THEN 1 ELSE 0)

\* ids that are not 0 and differ from one another
IdsDistinct(markers) ==
    \A i \in 1..Len(markers) :
        /\ markers[i].id # 0
        /\ \A j \in 1..Len(markers) : markers[i].id = markers[j].id => i = j

\* C22: add_marker gives a marker of id 0 the largest id + 1 (1 when there
\* is none) and keeps another id; ids that are non-zero and distinct stay so
\* under add_marker of id 0, remove_marker and clear_markers;
\* remove_marker(id) returns true exactly when a marker of that id is there
\* and removes that marker and no other.
C22_MarkerIds ==
    [][LET before == audiofile.markers
           after == audiofile'.markers
       IN  /\ outcome'.op = "add_marker" =>
                LET m == outcome'.marker
                    id == IF m.id = 0 THEN max_id(before) + 1 ELSE m.id
                IN  /\ AddedTo(before, [m EXCEPT !.id = id], after)
                    /\ (m.id = 0 /\ before = <<>>) => after[1].id = 1
                    /\ (m.id = 0 /\ IdsDistinct(before)) => IdsDistinct(after)
           /\ outcome'.op = "remove_marker" =>
                LET id == outcome'.id
                IN  /\ outcome'.returned = (\E i \in 1..Len(before) : before[i].id = id)
                    /\ ~outcome'.returned => after = before
                    /\ outcome'.returned =>
                          \E i \in 1..Len(before) :
                              /\ before[i].id = id
                              /\ after = SubSeq(before, 1, i - 1)
                                         \o SubSeq(before, i + 1, Len(before))
                    /\ IdsDistinct(before) => IdsDistinct(after)
           /\ outcome'.op = "clear_markers" => after = <<>>
      ]_vars

\* two markers of distinct ids, one of them given by add_marker to a marker
\* of id 0 : the largest id + 1, which is more than the number of markers
C22_Witness ==
    /\ outcome.op = "add_marker"
    /\ outcome.marker.id = 0
    /\ Len(audiofile.markers) = 2
    /\ IdsDistinct(audiofile.markers)
    /\ \E i \in 1..2 : audiofile.markers[i].id > 2

(***************************************************************************)
(* SpecCompression : dsp::Compression, run over blocks of samples.         *)
(* Levels and gains are in dB, as exact fractions <<n, d>> with d > 0.     *)
(***************************************************************************)
RECURSIVE Gcd(_, _)
Gcd(a, b) == IF b = 0 THEN a ELSE Gcd(b, a % b)

\* the fraction n/d in lowest terms, d > 0
Q(n, d) ==
    LET g == Gcd(IF n < 0 THEN -n ELSE n, IF d < 0 THEN -d ELSE d)
        sign == IF d < 0 THEN -1 ELSE 1
    IN  IF n = 0 THEN <<0, 1>> ELSE <<(sign * n) \div g, (sign * d) \div g>>

QAdd(x, y) == Q(x[1] * y[2] + y[1] * x[2], x[2] * y[2])
QSub(x, y) == Q(x[1] * y[2] - y[1] * x[2], x[2] * y[2])
QMul(x, y) == Q(x[1] * y[1], x[2] * y[2])
QDiv(x, y) == Q(x[1] * y[2], x[2] * y[1])
QLess(x, y) == x[1] * y[2] < y[1] * x[2]
QLeq(x, y) == x[1] * y[2] <= y[1] * x[2]
QAbs(x) == IF x[1] < 0 THEN <<-x[1], x[2]>> ELSE x

\* the levels 20 * log10 |x| of the samples x given to run; the lowest one
\* is a sample of at most 1e-10
Levels == {Q(-240, 1)} \cup {Q(-10 * k, 1) : k \in 0..MaxLevel}

\* what exp(-1 / (time * 0.001 * sample_rate)) can be
Coefficients == {Q(0, 1), Q(1, 2)}

\* if input_abs > 1e-10 { 20.0 * input_abs.log10() } else { -200.0 }
input_db(level) == IF QLess(Q(-200, 1), level) THEN level ELSE Q(-200, 1)

\* Compression::compute_gain
compute_gain(c, db) ==
    LET over == QSub(QAdd(c.threshold, QDiv(QSub(db, c.threshold), c.ratio)), db)
    IN  IF QLess(Q(0, 1), c.knee)
        THEN LET half_knee == QMul(c.knee, Q(1, 2))
                 lower == QSub(c.threshold, half_knee)
                 upper == QAdd(c.threshold, half_knee)
                 x == QSub(db, lower)
                 slope == QSub(QDiv(Q(1, 1), c.ratio), Q(1, 1))
             IN  IF QLeq(db, lower) THEN Q(0, 1)
                 ELSE IF QLeq(upper, db) THEN over
                 ELSE QDiv(QMul(QMul(slope, x), x), QMul(Q(2, 1), c.knee))
        ELSE IF QLeq(db, c.threshold) THEN Q(0, 1) ELSE over

\* one pass of the loop of Compression::run : the envelope follows the
\* target, and the sample is multiplied by db_to_ratio(envelope) * makeup_linear
follow(c, level) ==
    LET target_gr == compute_gain(c, input_db(level))
        coeff == IF QLess(target_gr, c.envelope) THEN c.attack_coeff ELSE c.release_coeff
    IN  [c EXCEPT !.envelope = QAdd(target_gr, QMul(coeff, QSub(c.envelope, target_gr)))]

\* the envelopes of the samples of a block, in order
RECURSIVE Envelopes(_, _)
Envelopes(c, block) ==
    IF block = <<>> THEN <<>>
    ELSE <<follow(c, Head(block)).envelope>> \o Envelopes(follow(c, Head(block)), Tail(block))

\* Compression::new with the public fields set, and update_coefficients
Compression_new(threshold, ratio, makeup, knee, attack_coeff, release_coeff) ==
    [threshold |-> threshold, ratio |-> ratio, makeup |-> makeup, knee |-> knee,
     envelope |-> Q(0, 1), attack_coeff |-> attack_coeff, release_coeff |-> release_coeff,
     input |-> <<>>, reduction |-> <<>>, runs |-> 0]

\* Compression::run on a block : input is the block, reduction[i] the gain
\* in dB, without the makeup, that sample i was multiplied by
Compression_run(block) ==
    /\ compression.runs < MaxRuns
    /\ compression' = [compression EXCEPT
          !.envelope = IF block = <<>> THEN @
                       ELSE Envelopes(compression, block)[Len(block)],
          !.input = block,
          !.reduction = Envelopes(compression, block),
          !.runs = @ + 1]
    /\ UNCHANGED <<convolution, delay, limit, runs, codecVars, bufVars, rtVars>>

InitSpecCompression ==
    /\ \E ratio \in {Q(2, 1), Q(4, 1)}, makeup \in {Q(0, 1), Q(6, 1)},
          knee \in {Q(0, 1), Q(8, 1)}, attack_coeff \in Coefficients,
          release_coeff \in Coefficients :
          compression = Compression_new(Q(-20, 1), ratio, makeup, knee,
                                        attack_coeff, release_coeff)
    /\ limit = 0 /\ runs = <<>>
    /\ convolution = NoConvolution /\ delay = NoDelay
    /\ InitNoCodec /\ InitNoBuffers /\ InitRealtime

NextCompression == \E block \in SeqsUpTo(Levels, MaxBlock) : Compression_run(block)

SpecCompression == InitSpecCompression /\ [][NextCompression]_vars

\* sample i of the last block is below the knee
BelowThreshold(i) ==
    QLess(compression.input[i],
          QSub(compression.threshold, QMul(compression.knee, Q(1, 2))))

\* C23: a sample below threshold - knee/2 leaves run multiplied by
\* 10^(makeup/20) and nothing else, whatever was processed before it: the
\* gain reduction applied to it is 0 dB.
C23_NoReductionBelowThreshold ==
    \A i \in 1..Len(compression.input) :
        BelowThreshold(i) => compression.reduction[i] = Q(0, 1)

\* the reduction of a sample below the knee is the release coefficient times
\* the envelope the sample before it left
ReductionDecays ==
    \A i \in 2..Len(compression.input) :
        BelowThreshold(i) =>
            compression.reduction[i] =
                QMul(compression.release_coeff, compression.reduction[i - 1])

\* the first sample of a new compressor, when below the knee, is not reduced
NoReductionFromRest ==
    (compression.runs = 1 /\ Len(compression.input) >= 1 /\ BelowThreshold(1)) =>
        compression.reduction[1] = Q(0, 1)

(***************************************************************************)
(* SpecLimit : dsp::Limit::process, sample by sample. Samples and gains    *)
(* are linear, exact fractions.                                            *)
(***************************************************************************)
\* the samples given to process
LimitInputs == {Q(k, 2) : k \in (0 - MaxLimitInput)..MaxLimitInput}

\* Limit::process with the release applied to the attack as well
limit_process_smooth(l, input) ==
    LET amplified == QMul(input, l.gain_linear)
        abs_sample == QAbs(amplified)
        target == IF QLess(l.ceiling_linear, abs_sample)
                  THEN QDiv(l.ceiling_linear, abs_sample) ELSE Q(1, 1)
        envelope == QAdd(target, QMul(l.release_coeff, QSub(l.envelope, target)))
    IN  [l EXCEPT !.envelope = envelope, !.input = input,
                  !.output = QMul(amplified, envelope), !.calls = @ + 1]

\* Limit::process : gain_linear and ceiling_linear stand for
\* db_to_ratio(gain) and db_to_ratio(ceiling)
limit_process(l, input) ==
    LET amplified == QMul(input, l.gain_linear)
        abs_sample == QAbs(amplified)
        target == IF QLess(l.ceiling_linear, abs_sample)
                  THEN QDiv(l.ceiling_linear, abs_sample) ELSE Q(1, 1)
        envelope == IF QLess(target, l.envelope) THEN target
                    ELSE QAdd(target, QMul(l.release_coeff, QSub(l.envelope, target)))
    IN  [l EXCEPT !.envelope = envelope, !.input = input,
                  !.output = QMul(amplified, envelope), !.calls = @ + 1]

\* Limit::new with the public fields set, and update_coefficients
Limit_new(gain_linear, ceiling_linear, release_coeff) ==
    [gain_linear |-> gain_linear, ceiling_linear |-> ceiling_linear,
     release_coeff |-> release_coeff, envelope |-> Q(1, 1),
     input |-> Q(0, 1), output |-> Q(0, 1), calls |-> 0]

Limit_process(input) ==
    /\ limit.calls < MaxCalls
    /\ limit' = limit_process(limit, input)
    /\ UNCHANGED <<convolution, delay, compression, runs, codecVars, bufVars, rtVars>>

InitSpecLimit ==
    /\ \E gain_linear \in {Q(1, 1), Q(2, 1)}, ceiling_linear \in {Q(1, 1), Q(1, 2)},
          release_coeff \in Coefficients :
          limit = Limit_new(gain_linear, ceiling_linear, release_coeff)
    /\ compression = 0 /\ runs = <<>>
    /\ convolution = NoConvolution /\ delay = NoDelay
    /\ InitNoCodec /\ InitNoBuffers /\ InitRealtime

NextLimit == \E input \in LimitInputs : Limit_process(input)

SpecLimit == InitSpecLimit /\ [][NextLimit]_vars

\* C24: with a release coefficient in [0, 1) the envelope of the limiter is
\* above 0 and at most 1, and no output is above the ceiling in absolute
\* value, the sample that first exceeds the ceiling included.
C24_LimitCeiling ==
    /\ QLess(Q(0, 1), limit.envelope)
    /\ QLeq(limit.envelope, Q(1, 1))
    /\ QLeq(QAbs(limit.output), limit.ceiling_linear)

\* a sample above the ceiling that comes while the envelope is recovering
\* from a louder one : the envelope is between the two targets and the
\* output is under the ceiling
C24_Witness ==
    /\ limit.calls >= 2
    /\ QLess(limit.ceiling_linear, QAbs(QMul(limit.input, limit.gain_linear)))
    /\ QLess(QAbs(limit.output), limit.ceiling_linear)
    /\ QLess(Q(0, 1), limit.release_coeff)

(***************************************************************************)
(* SpecScanner : get_index_of_chunk on WAV and AIFF containers built chunk *)
(* by chunk.                                                               *)
(***************************************************************************)
\* the byte order of the container, as read_wav and read_aiff pass it
ContainerOrder(format) == IF format = "Wav" THEN "Little" ELSE "Big"

\* the other one
OtherOrder(endianness) == IF endianness = "Little" THEN "Big" ELSE "Little"

ScannedIds == {fmt_, data, iXML}

\* a chunk : its id, its size written in the byte order given, size bytes
\* and a pad byte after an odd number of them
Chunk(id, size, endianness) ==
    id \o set_u32(size, endianness) \o ZeroBytes(size + (size % 2))

InitSpecScanner ==
    /\ \E format \in {"Wav", "Aiff"} :
          /\ bytes = (IF format = "Wav" THEN RIFF \o ZeroBytes(4) \o WAVE
                      ELSE FORM \o ZeroBytes(4) \o AIFF)
          /\ outcome = [op |-> "header", format |-> format, layout |-> <<>>]
    /\ audiofile = 0
    /\ reloaded = <<>>
    /\ InitNoBuffers /\ InitRealtime /\ InitNoDsp

\* one more chunk at the end of the container; written is "container" when
\* its size is in the byte order of the container, "reversed" when not
AppendChunk(id, size, written) ==
    /\ Len(outcome.layout) < MaxChunks
    /\ bytes' = bytes \o Chunk(id, size,
                               IF written = "container"
                               THEN ContainerOrder(outcome.format)
                               ELSE OtherOrder(ContainerOrder(outcome.format)))
    /\ outcome' = [op |-> "chunk", format |-> outcome.format,
                   layout |-> Append(outcome.layout,
                                     [id |-> id, at |-> Len(bytes), size |-> size,
                                      written |-> written])]
    /\ UNCHANGED <<audiofile, reloaded, dspVars, bufVars, rtVars>>

\* get_index_of_chunk(buffer, chunk, 12, endianness) as read_wav and
\* read_aiff call it
Scan(chunk) ==
    /\ outcome' = [op |-> "scan", format |-> outcome.format, layout |-> outcome.layout,
                   chunk |-> chunk,
                   index |-> get_index_of_chunk(bytes, chunk, 12,
                                                ContainerOrder(outcome.format))]
    /\ UNCHANGED <<audiofile, bytes, reloaded, dspVars, bufVars, rtVars>>

NextScanner ==
    \/ \E id \in ScannedIds, size \in 0..MaxPayload, written \in {"container", "reversed"} :
          AppendChunk(id, size, written)
    \/ \E chunk \in ScannedIds : Scan(chunk)

SpecScanner == InitSpecScanner /\ [][NextScanner]_vars

\* the places of the chunks of that id
Places(layout, chunk) == {layout[i].at : i \in {j \in 1..Len(layout) : layout[j].id = chunk}}

\* the offset of the first chunk of that id, 0 when there is none
FirstPlace(layout, chunk) ==
    IF Places(layout, chunk) = {} THEN 0
    ELSE CHOOSE at \in Places(layout, chunk) : \A other \in Places(layout, chunk) : at <= other

\* C25: in a container whose chunk sizes are in the byte order of the
\* container, with a pad byte after each odd-sized chunk, the scanner
\* started at offset 12 returns the offset of the first chunk of the id
\* asked for, whatever chunks come before it, and 0 when there is none.
C25_ScannerFindsChunk ==
    (/\ outcome.op = "scan"
     /\ \A i \in 1..Len(outcome.layout) : outcome.layout[i].written = "container") =>
        outcome.index = FirstPlace(outcome.layout, outcome.chunk)

\* what the scanner does find : the chunk at offset 12, and a chunk behind
\* chunks of even size whose sizes are written the other way round; a chunk
\* that is not there gives 0
ScannerFindsReversed ==
    (/\ outcome.op = "scan"
     /\ \/ Len(outcome.layout) = 0
        \/ outcome.layout[1].id = outcome.chunk
        \/ \A i \in 1..Len(outcome.layout) :
              outcome.layout[i].written = "reversed" /\ outcome.layout[i].size % 2 = 0) =>
        outcome.index = FirstPlace(outcome.layout, outcome.chunk)

\* behind a chunk whose size is in the byte order of the container and not
\* 0, no chunk is found
ScannerLosesContainerOrder ==
    (/\ outcome.op = "scan"
     /\ Len(outcome.layout) >= 1
     /\ outcome.layout[1].written = "container"
     /\ outcome.layout[1].size > 0
     /\ outcome.layout[1].id # outcome.chunk) =>
        outcome.index = 0

(***************************************************************************)
(* SpecHeader : read_wav on files of one frame whose fmt chunk holds the   *)
(* numbers given, consistent or not, in either byte order.                 *)
(***************************************************************************)
\* the fmt chunks tried : PCM and float, the sample rates 1 and 44100, 8 and
\* 16 bits, the byte rate right or 1 more, the block size that of a frame or
\* the one read_wav asks for, the numbers lowest byte first as save writes
\* them ("container") or highest byte first ("reversed")
Headers ==
    {[code |-> code, channels |-> channels, sample_rate |-> sample_rate, bits |-> bits,
      avg |-> (channels * sample_rate * bits) \div 8 + more,
      block |-> IF frame THEN channels * (bits \div 8)
                ELSE (channels * ((channels * sample_rate * bits) \div 8 + more)) % 65536,
      written |-> written] :
        code \in {1, 3}, channels \in 1..MaxHeaderChannels, sample_rate \in {1, 44100},
        bits \in {8, 16}, more \in {0, 1}, frame \in BOOLEAN,
        written \in {"container", "reversed"}}

\* the file : the 12 bytes of the header, the fmt chunk, and a data chunk of
\* one frame with bytes to spare behind it
HeaderWav(h) ==
    LET e == IF h.written = "container" THEN "Little" ELSE "Big"
    IN  RIFF \o ZeroBytes(4) \o WAVE
        \o fmt_ \o set_u32(16, e)
        \o set_u16(h.code, e) \o set_u16(h.channels, e)
        \o set_u32(h.sample_rate, e) \o set_u32(h.avg, e)
        \o set_u16(h.block, e) \o set_u16(h.bits, e)
        \o data \o set_u32(h.channels * (h.bits \div 8), e)
        \o ZeroBytes(2 * h.channels * (h.bits \div 8))

\* AudioFile::default().load_bytes(..) on such a file
AudioFile_load_wav(h) ==
    LET loaded == load_bytes(AudioFile_default, HeaderWav(h))
    IN  /\ audiofile' = loaded.file
        /\ bytes' = HeaderWav(h)
        /\ outcome' = [op |-> "load_wav", written |-> FALSE, panic |-> loaded.panic,
                       header |-> h]
        /\ reloaded' = <<>>
        /\ UNCHANGED <<dspVars, bufVars, rtVars>>

InitSpecHeader ==
    /\ audiofile = AudioFile_default
    /\ bytes = <<>>
    /\ outcome = Outcome("new", FALSE, FALSE)
    /\ reloaded = <<>>
    /\ InitNoBuffers /\ InitRealtime /\ InitNoDsp

NextHeader == \E h \in Headers : AudioFile_load_wav(h)

SpecHeader == InitSpecHeader /\ [][NextHeader]_vars

\* the frame of the file was decoded
Accepted ==
    /\ ~outcome.panic
    /\ num_channel(audiofile) = outcome.header.channels
    /\ num_sample(audiofile) = 1

\* no sample was decoded : the samples are those of AudioFile::default()
Rejected == ~outcome.panic /\ audiofile.audio_buffer = AudioFile_default.audio_buffer

\* avg-bytes-per-sec = channels * sr * bits / 8 and block-align = channels * bits / 8
Consistent(h) ==
    /\ h.avg = (h.channels * h.sample_rate * h.bits) \div 8
    /\ h.block = h.channels * (h.bits \div 8)

\* C26: a WAV file whose fmt chunk is consistent (byte rate = channels *
\* sample rate * bits / 8, block size = channels * bits / 8) is decoded,
\* the fmt chunks save writes among them, and one whose byte rate is not
\* channels * sample rate * bits / 8 is rejected with no sample decoded.
C26_ConsistentHeaderAccepted ==
    outcome.op = "load_wav" =>
        LET h == outcome.header
        IN  /\ (Consistent(h) /\ h.written = "container") => Accepted
            /\ h.avg # (h.channels * h.sample_rate * h.bits) \div 8 => Rejected

\* the files read_wav decodes : the numbers highest byte first, the byte
\* rate right and the block size channels * byte rate
AcceptedHeaders ==
    outcome.op = "load_wav" =>
        LET h == outcome.header
        IN  Accepted <=> /\ h.written = "reversed"
                         /\ h.avg = (h.channels * h.sample_rate * h.bits) \div 8
                         /\ h.block = h.channels * h.avg

\* a file that is not decoded leaves the samples alone, and a wrong byte
\* rate is not decoded
RejectedHeaders ==
    outcome.op = "load_wav" =>
        LET h == outcome.header
        IN  /\ Accepted \/ Rejected
            /\ h.avg # (h.channels * h.sample_rate * h.bits) \div 8 => Rejected

(***************************************************************************)
(* SpecSamples : the per-sample decoding of read_wav and read_aiff applied *)
(* to the bytes of an integer in the byte order of the container.          *)
(***************************************************************************)
\* the integers decoded at a bit depth : the small ones, those around one
\* byte, and the two ends
SampleInts(bit_depth) ==
    {v \in (0 - MaxSampleInt)..MaxSampleInt \cup {-256, -255, 255, 256}
           \cup {Peak(bit_depth), 0 - Peak(bit_depth)} :
        v <= Peak(bit_depth) /\ v >= 0 - Peak(bit_depth)}

\* the sample the loop of read_wav or read_aiff pushes for the integer v
\* stored as bit_depth / 8 bytes, lowest byte first in a WAV file and highest
\* byte first in an AIFF file
Decode(container, bit_depth, v) ==
    LET stored == IF container = "Wav" THEN LowBytes(v, bit_depth \div 8)
                  ELSE Reverse(LowBytes(v, bit_depth \div 8))
    IN  /\ bytes' = stored
        /\ outcome' = [op |-> "decode", container |-> container, bit_depth |-> bit_depth,
                       value |-> v,
                       sample |-> IF container = "Wav"
                                  THEN wav_sample(stored, 0, bit_depth, FALSE)
                                  ELSE aiff_sample(stored, 0, bit_depth, FALSE)]
        /\ UNCHANGED <<audiofile, reloaded, dspVars, bufVars, rtVars>>

InitSpecSamples ==
    /\ audiofile = 0
    /\ bytes = <<>>
    /\ outcome = [op |-> "none"]
    /\ reloaded = <<>>
    /\ InitNoBuffers /\ InitRealtime /\ InitNoDsp

NextSamples ==
    \E container \in {"Wav", "Aiff"}, bit_depth \in {8, 16, 24, 32} :
        \E v \in SampleInts(bit_depth) : Decode(container, bit_depth, v)

SpecSamples == InitSpecSamples /\ [][NextSamples]_vars

\* C27: at every integer bit depth and in both containers the decoded
\* sample is the signed integer the bytes hold in the byte order of the
\* container, divided by the peak of the depth: negative for a negative
\* integer and not negative otherwise.
C27_SignedDecode ==
    outcome.op = "decode" =>
        /\ outcome.sample = Ratio(outcome.value, Peak(outcome.bit_depth))
        /\ outcome.value < 0 <=> outcome.sample[1] < 0

\* 8-bit samples are decoded as the claim says, in both containers
DecodesOneByte ==
    (outcome.op = "decode" /\ outcome.bit_depth = 8) =>
        outcome.sample = Ratio(outcome.value, 127)

\* what the other depths give : 16 and 32 bits in a WAV file are read highest
\* byte first, 16 bits in an AIFF file are read lowest byte first, unsigned
\* and over 65535, and a 24-bit integer comes out 2^24 lower when it is not
\* negative and 2^24 higher when it is
DecodesOtherwise ==
    outcome.op = "decode" =>
        LET v == outcome.value
            low == LowBytes(v, outcome.bit_depth \div 8)
        IN  /\ (outcome.container = "Wav" /\ outcome.bit_depth = 16) =>
                  outcome.sample = Ratio(cast_signed(low[1]) * 256 + low[2], 32767)
            /\ (outcome.container = "Aiff" /\ outcome.bit_depth = 16) =>
                  outcome.sample = Ratio(low[1] * 256 + low[2], 65535)
            /\ outcome.bit_depth = 24 =>
                  outcome.sample = Ratio(IF v >= 0 THEN v - 16777216 ELSE v + 16777216,
                                         8388607)

(***************************************************************************)
(* SpecIntegers : get_u16, get_u32 and get_u64 on the bytes set_u16,       *)
(* set_u32 and set_u64 write.                                              *)
(***************************************************************************)
\* get_u64, as the eight bytes of the result from the highest to the
\* lowest; <<>> stands for the 0 of a vector that is too short
get_u64(buf, start, endianness) ==
    IF Len(buf) >= start + 8
    THEN IF endianness = "Big"
         THEN [k \in 1..8 |-> buf[start + 9 - k]]
         ELSE [k \in 1..8 |-> buf[start + k]]
    ELSE <<>>

\* the eight bytes of a value below 2^32, from the highest to the lowest
Bytes64(value) == ZeroBytes(4) \o Reverse(LowBytes(value, 4))

\* the values written : the small ones and some of more than one byte
Words(width) ==
    (0..MaxWord) \cup {256, 257, 258}
    \cup (IF width = 16 THEN {255, 65535} ELSE {65536, 16777216, 16843009})

\* set_uN(value, endianness) into an empty vector, then get_uN at offset 0
\* with the same endianness
RoundTrip(width, value, endianness) ==
    LET written == CASE width = 16 -> set_u16(value, endianness)
                     [] width = 32 -> set_u32(value, endianness)
                     [] width = 64 -> set_u64(value, endianness)
    IN  /\ bytes' = written
        /\ outcome' = [op |-> "round_trip", width |-> width, value |-> value,
                       endianness |-> endianness,
                       got |-> CASE width = 16 -> get_u16(written, 0, endianness)
                                 [] width = 32 -> get_u32(written, 0, endianness)
                                 [] width = 64 -> get_u64(written, 0, endianness)]
        /\ UNCHANGED <<audiofile, reloaded, dspVars, bufVars, rtVars>>

InitSpecIntegers ==
    /\ audiofile = 0
    /\ bytes = <<>>
    /\ outcome = [op |-> "none"]
    /\ reloaded = <<>>
    /\ InitNoBuffers /\ InitRealtime /\ InitNoDsp

NextIntegers ==
    \E width \in {16, 32, 64}, endianness \in {"Little", "Big"} :
        \E value \in Words(width) : RoundTrip(width, value, endianness)

SpecIntegers == InitSpecIntegers /\ [][NextIntegers]_vars

\* the value read back is the value written
ReadBack ==
    outcome.got = IF outcome.width = 64 THEN Bytes64(outcome.value) ELSE outcome.value

\* C28: get_u16, get_u32 and get_u64 return the value set_u16, set_u32 and
\* set_u64 wrote with the same endianness; Little is lowest byte first and
\* Big is highest byte first.
C28_IntegersRoundTrip ==
    outcome.op = "round_trip" =>
        /\ ReadBack
        /\ outcome.endianness = "Little" => bytes[1] = outcome.value % 256
        /\ outcome.endianness = "Big" => bytes[Len(bytes)] = outcome.value % 256

\* the setters write Little lowest byte first and Big highest byte first
SettersFollowByteOrder ==
    outcome.op = "round_trip" =>
        /\ outcome.endianness = "Little" => bytes[1] = outcome.value % 256
        /\ outcome.endianness = "Big" => bytes[Len(bytes)] = outcome.value % 256

\* the getters read the bytes in the other order : the value comes back
\* exactly when its bytes are the same in both directions
ReadBackOfPalindromes ==
    outcome.op = "round_trip" => (ReadBack <=> bytes = Reverse(bytes))

(***************************************************************************)
(* CircularBuffer: every constructor and every operation of the handle and *)
(* of its two guards, called with arbitrary lengths, offsets and indices.  *)
(* usize is UsizeBits wide here; an addition that leaves the word panics   *)
(* in a build with overflow checks and wraps in a build without them.      *)
(***************************************************************************)
RECURSIVE Pow2(_)
Pow2(k) == IF k = 0 THEN 1 ELSE 2 * Pow2(k - 1)

usize_MAX == Pow2(UsizeBits) - 1

\* the arguments tried for an offset or an index: small ones, some past the
\* capacity, and the largest usize
Offsets == (0..(MaxCircLen + 1)) \cup {usize_MAX}

\* the samples written here: the indices do not depend on the values
Written == {MaxVal}

\* CircularBuffer::from_slice
CircularBuffer_from_slice(slice) ==
    LET len == Max(next_power_of_two(Len(slice)), 1)
    IN  [buffer |-> [i \in 1..len |-> IF i <= Len(slice) THEN slice[i] ELSE Default],
         read |-> 0,
         write |-> BitAnd(Len(slice), len - 1),
         mask |-> len - 1]

\* the index an operation has just used on the storage, the storage's length
\* at that moment, and whether the addition left the word; no index when the
\* operation panicked before
Access(op, s, wrapped, idx) ==
    [op |-> op, wrapped |-> wrapped, at |-> <<idx>>, len |-> Len(buffer[s])]
Panicked(op, s) ==
    [op |-> op, wrapped |-> TRUE, at |-> <<>>, len |-> Len(buffer[s])]
NoAccess == [op |-> "none", wrapped |-> FALSE, at |-> <<>>, len |-> 0]

\* CircularBuffer::peek, CircularBufferReadGuard::peek, CircularBufferWriteGuard::peek
CircularBufferGuard_peek(t) ==
    /\ kind = "CircularBuffer"
    /\ \/ guards[t] \in {"read", "write"}
       \/ Live(t) /\ ~WriteHeld(inner[t]) /\ guards[t] = "none"
    /\ outcome' = Access("peek", inner[t], FALSE, read[inner[t]])
    /\ UNCHANGED <<bufVars, rtVars, dspVars, audiofile, bytes, reloaded>>

\* CircularBufferReadGuard::read_offset, CircularBufferWriteGuard::read_offset
CircularBufferGuard_read_offset(t, offset, checked) ==
    /\ kind = "CircularBuffer"
    /\ guards[t] \in {"read", "write"}
    /\ LET s == inner[t]
           sum == read[s] + offset
       IN  outcome' = IF checked /\ sum > usize_MAX
                      THEN Panicked("read_offset", s)
                      ELSE Access("read_offset", s, sum > usize_MAX,
                                  BitAnd(sum % (usize_MAX + 1), mask[s]))
    /\ UNCHANGED <<bufVars, rtVars, dspVars, audiofile, bytes, reloaded>>

\* CircularBufferWriteGuard::write_offset
CircularBufferWriteGuard_write_offset(t, offset, value, checked) ==
    /\ kind = "CircularBuffer"
    /\ guards[t] = "write"
    /\ LET s == inner[t]
           sum == write[s] + offset
           idx == BitAnd(sum % (usize_MAX + 1), mask[s])
       IN  IF checked /\ sum > usize_MAX
           THEN /\ outcome' = Panicked("write_offset", s)
                /\ UNCHANGED <<buffer, histVars>>
           ELSE /\ outcome' = Access("write_offset", s, sum > usize_MAX, idx)
                /\ buffer' = [buffer EXCEPT ![s][idx + 1] = value]
                /\ hist' = <<>> /\ pops' = <<>> /\ pure' = FALSE
                /\ UNCHANGED wlog
    /\ UNCHANGED <<kind, inner, reference, index, read, write, mask, lockVars,
                   rtVars, dspVars, audiofile, bytes, reloaded>>

\* a set_read that stores the index as it is given
CircularBufferWriteGuard_set_read_unmasked(t, idx) ==
    /\ kind = "CircularBuffer"
    /\ guards[t] = "write"
    /\ read' = [read EXCEPT ![inner[t]] = idx]
    /\ hist' = <<>> /\ pops' = <<>> /\ pure' = FALSE
    /\ outcome' = NoAccess
    /\ UNCHANGED <<kind, inner, reference, buffer, index, write, mask, lockVars,
                   wlog, rtVars, dspVars, audiofile, bytes, reloaded>>

\* CircularBufferWriteGuard::set_read
CircularBufferWriteGuard_set_read(t, idx) ==
    /\ kind = "CircularBuffer"
    /\ guards[t] = "write"
    /\ read' = [read EXCEPT ![inner[t]] = BitAnd(idx, mask[inner[t]])]
    /\ hist' = <<>> /\ pops' = <<>> /\ pure' = FALSE
    /\ outcome' = NoAccess
    /\ UNCHANGED <<kind, inner, reference, buffer, index, write, mask, lockVars,
                   wlog, rtVars, dspVars, audiofile, bytes, reloaded>>

\* CircularBufferWriteGuard::set_write
CircularBufferWriteGuard_set_write(t, idx) ==
    /\ kind = "CircularBuffer"
    /\ guards[t] = "write"
    /\ write' = [write EXCEPT ![inner[t]] = BitAnd(idx, mask[inner[t]])]
    /\ hist' = <<>> /\ pops' = <<>> /\ pure' = FALSE
    /\ outcome' = NoAccess
    /\ UNCHANGED <<kind, inner, reference, buffer, index, read, mask, lockVars,
                   wlog, rtVars, dspVars, audiofile, bytes, reloaded>>

\* CircularBufferWriteGuard::clear
CircularBufferWriteGuard_clear(t) ==
    /\ kind = "CircularBuffer"
    /\ guards[t] = "write"
    /\ buffer' = [buffer EXCEPT ![inner[t]] = Zeros(Len(@))]
    /\ read' = [read EXCEPT ![inner[t]] = 0]
    /\ write' = [write EXCEPT ![inner[t]] = 0]
    /\ hist' = <<>> /\ pops' = <<>> /\ pure' = TRUE
    /\ UNCHANGED <<kind, inner, reference, index, mask, lockVars, wlog,
                   rtVars, dspVars, codecVars>>

\* Index of CircularBufferReadGuard and of CircularBufferWriteGuard : guard[index]
CircularBufferGuard_index(t, idx) ==
    /\ kind = "CircularBuffer"
    /\ guards[t] \in {"read", "write"}
    /\ outcome' = Access("index", inner[t], FALSE, BitAnd(idx, mask[inner[t]]))
    /\ UNCHANGED <<bufVars, rtVars, dspVars, audiofile, bytes, reloaded>>

\* IndexMut of CircularBufferWriteGuard : guard[index] = value
CircularBufferWriteGuard_index_mut(t, i, value) ==
    /\ kind = "CircularBuffer"
    /\ guards[t] = "write"
    /\ LET s == inner[t]
           idx == BitAnd(i, mask[s])
       IN  /\ outcome' = Access("index_mut", s, FALSE, idx)
           /\ buffer' = [buffer EXCEPT ![s][idx + 1] = value]
    /\ hist' = <<>> /\ pops' = <<>> /\ pure' = FALSE
    /\ UNCHANGED <<kind, inner, reference, index, read, write, mask, lockVars,
                   wlog, rtVars, dspVars, audiofile, bytes, reloaded>>

\* the buffer is made by CircularBuffer::new or by CircularBuffer::from_slice
InitSpecCircular ==
    /\ InitLock
    /\ kind = "CircularBuffer"
    /\ \E made \in {CircularBuffer_new(len) : len \in 0..MaxCircLen}
                  \cup {CircularBuffer_from_slice(slice) : slice \in SeqsUpTo(Written, MaxCircLen)} :
         /\ buffer = [s \in Storage |-> IF s = 1 THEN made.buffer ELSE <<>>]
         /\ read = [s \in Storage |-> IF s = 1 THEN made.read ELSE 0]
         /\ write = [s \in Storage |-> IF s = 1 THEN made.write ELSE 0]
         /\ mask = [s \in Storage |-> IF s = 1 THEN made.mask ELSE 0]
    /\ index = [s \in Storage |-> 0]
    /\ InitRealtime
    /\ InitNoDsp
    /\ audiofile = 0 /\ bytes = <<>> /\ reloaded = <<>>
    /\ outcome = NoAccess

NextCircular ==
    \/ \E t \in Thread : Handle_read(t)
    \/ \E t \in Thread : Handle_write(t)
    \/ \E t \in Thread : ReadGuard_drop(t)
    \/ \E t \in Thread : WriteGuard_drop(t)
    \/ \E t, u \in Thread : Handle_clone(t, u)
    \/ \E t \in Thread, value \in Written : CircularBuffer_push(t, value)
    \/ \E t \in Thread, value \in Written : CircularBufferWriteGuard_push(t, value)
    \/ \E t \in Thread : CircularBuffer_next(t)
    \/ \E t \in Thread : CircularBufferWriteGuard_next(t)
    \/ \E t \in Thread : CircularBufferGuard_peek(t)
    \/ \E t \in Thread, offset \in Offsets, checked \in BOOLEAN :
         CircularBufferGuard_read_offset(t, offset, checked)
    \/ \E t \in Thread, offset \in Offsets, value \in Written, checked \in BOOLEAN :
         CircularBufferWriteGuard_write_offset(t, offset, value, checked)
    \/ \E t \in Thread, idx \in Offsets : CircularBufferWriteGuard_set_read(t, idx)
    \/ \E t \in Thread, idx \in Offsets : CircularBufferWriteGuard_set_write(t, idx)
    \/ \E t \in Thread : CircularBuffer_clear(t)
    \/ \E t \in Thread : CircularBufferWriteGuard_clear(t)
    \/ \E t \in Thread, len \in 0..MaxCircLen : CircularBuffer_resize(t, len)
    \/ \E t \in Thread, idx \in Offsets : CircularBufferGuard_index(t, idx)
    \/ \E t \in Thread, idx \in Offsets, value \in Written :
         CircularBufferWriteGuard_index_mut(t, idx, value)

SpecCircular == InitSpecCircular /\ [][NextCircular]_vars

\* n is a power of two (1 included)
IsPowerOfTwo(n) == \E k \in 0..UsizeBits : n = Pow2(k)

\* C29: whatever the constructor was and whatever operations have run with
\* whatever arguments, the capacity M of a circular buffer is a power of two
\* and at least 1, mask = M - 1, 0 <= read < M, 0 <= write < M, and the
\* index an operation used lies inside the storage.
C29_CircularBufferInvariant ==
    /\ \A t \in Thread : Live(t) =>
         LET s == inner[t]
             M == Len(buffer[s])
         IN  /\ M >= 1
             /\ IsPowerOfTwo(M)
             /\ mask[s] = M - 1
             /\ read[s] \in 0..(M - 1)
             /\ write[s] \in 0..(M - 1)
    /\ \A k \in 1..Len(outcome.at) : outcome.at[k] \in 0..(outcome.len - 1)

\* a buffer of four samples with both pointers moved off 0 has just been
\* read at an offset that takes the sum past the largest usize, in a build
\* that wraps the addition
C29_Witness ==
    /\ Len(buffer[1]) = 4
    /\ read[1] > 0
    /\ write[1] > 0
    /\ outcome.op = "read_offset"
    /\ outcome.wrapped
    /\ outcome.at # <<>>

(***************************************************************************)
(* run(input, output) of the DSP blocks.  Each thread calls run on one of  *)
(* two Buffer storages for its input and one for its output (the same      *)
(* storage when both handles are clones of one Buffer).  The guards a call *)
(* holds are its local variables input_guard, output_guard, buffer_guard,  *)
(* listed in runs[t].held in the order they were taken.  Convolution and   *)
(* Delay keep an internal buffer with a lock of its own; the threads share *)
(* one block of each kind where run takes &self.                           *)
(***************************************************************************)
Dsp == {"Convolution", "Saturation", "Compression", "Limit", "Delay"}

\* the blocks whose run takes self.buffer.write()
HasBuffer(dsp) == dsp \in {"Convolution", "Delay"}

\* the two Buffer storages the handles given to run point to
RunBuffers == {1, 2}

NoRun == [pc |-> "idle", dsp |-> "none", input |-> 0, output |-> 0, held |-> <<>>, n |-> 0]

Holds(t, guard) == \E k \in 1..Len(runs[t].held) : runs[t].held[k] = guard

\* the RwLock of Buffer storage b
RunReaders(b) == {t \in Thread : Holds(t, "input") /\ runs[t].input = b}
RunWriters(b) == {t \in Thread : Holds(t, "output") /\ runs[t].output = b}
\* the RwLock of the internal buffer of the block of kind dsp
BufferWriters(dsp) == {t \in Thread : Holds(t, "buffer") /\ runs[t].dsp = dsp}

runOthers == <<convolution, delay, compression, limit, codecVars, bufVars, rtVars>>

\* a thread calls dsp.run(input, output)
Run_call(t, dsp, input, output) ==
    /\ runs[t].pc \in {"idle", "returned", "panicked"}
    /\ runs[t].n < MaxRuns
    /\ runs' = [runs EXCEPT ![t] = [pc |-> "called", dsp |-> dsp, input |-> input,
                                    output |-> output, held |-> <<>>, n |-> @.n + 1]]
    /\ UNCHANGED runOthers

\* let input_guard = input.read();
Run_input_read(t) ==
    /\ runs[t].pc = "called"
    /\ RunWriters(runs[t].input) = {}
    /\ runs' = [runs EXCEPT ![t].pc = "input", ![t].held = Append(@, "input")]
    /\ UNCHANGED runOthers

\* let mut output_guard = output.write();  the lock is free
Run_output_write(t) ==
    /\ runs[t].pc = "input"
    /\ RunWriters(runs[t].output) = {}
    /\ RunReaders(runs[t].output) = {}
    /\ runs' = [runs EXCEPT ![t].pc = "output", ![t].held = Append(@, "output")]
    /\ UNCHANGED runOthers

\* output.write() called by the thread that holds the read guard of the same
\* lock: std::sync::RwLock::write may panic here instead of blocking for
\* ever; the unwinding drops input_guard
Run_output_write_panic(t) ==
    /\ runs[t].pc = "input"
    /\ runs[t].input = runs[t].output
    /\ runs' = [runs EXCEPT ![t].pc = "panicked", ![t].held = <<>>]
    /\ UNCHANGED runOthers

\* let mut buffer_guard = self.buffer.write();  (Convolution::run, Delay::run)
Run_buffer_write(t) ==
    /\ runs[t].pc = "output"
    /\ HasBuffer(runs[t].dsp)
    /\ BufferWriters(runs[t].dsp) = {}
    /\ runs' = [runs EXCEPT ![t].pc = "buffer", ![t].held = Append(@, "buffer")]
    /\ UNCHANGED runOthers

\* a return that forgets to drop input_guard
Run_return_leaking(t) ==
    /\ \/ runs[t].pc = "buffer"
       \/ runs[t].pc = "output" /\ ~HasBuffer(runs[t].dsp)
    /\ runs' = [runs EXCEPT ![t].pc = "returned", ![t].held = <<"input">>]
    /\ UNCHANGED runOthers

\* the sample loop runs inside no_denormals and the function returns: the
\* guards go out of scope
Run_return(t) ==
    /\ \/ runs[t].pc = "buffer"
       \/ runs[t].pc = "output" /\ ~HasBuffer(runs[t].dsp)
    /\ runs' = [runs EXCEPT ![t].pc = "returned", ![t].held = <<>>]
    /\ UNCHANGED runOthers

\* the steps of a call that std and the scheduler carry out when they can
Run_step(t) ==
    \/ Run_input_read(t)
    \/ Run_output_write(t)
    \/ Run_buffer_write(t)
    \/ Run_return(t)

InitSpecRun ==
    /\ runs = [t \in Thread |-> NoRun]
    /\ compression = 0 /\ limit = 0
    /\ convolution = NoConvolution /\ delay = NoDelay
    /\ InitNoCodec /\ InitNoBuffers /\ InitRealtime

NextRun ==
    \/ \E t \in Thread, dsp \in Dsp, input \in RunBuffers, output \in RunBuffers :
         Run_call(t, dsp, input, output)
    \/ \E t \in Thread : Run_input_read(t)
    \/ \E t \in Thread : Run_output_write(t)
    \/ \E t \in Thread : Run_output_write_panic(t)
    \/ \E t \in Thread : Run_buffer_write(t)
    \/ \E t \in Thread : Run_return(t)

SpecRun == InitSpecRun /\ [][NextRun]_vars

\* a thread whose lock can be granted is granted it, and a thread that holds
\* all its guards finishes its loop
FairSpecRun == SpecRun /\ \A t \in Thread : WF_vars(Run_step(t))

InCall(t) == runs[t].pc \in {"called", "input", "output", "buffer"}

\* the guards are taken in the order input, output, internal buffer
LockOrder ==
    \A t \in Thread :
        \/ runs[t].held = <<>>
        \/ runs[t].held = <<"input">>
        \/ runs[t].held = <<"input", "output">>
        \/ runs[t].held = <<"input", "output", "buffer">> /\ HasBuffer(runs[t].dsp)

\* a call that is over holds nothing
Released == \A t \in Thread : ~InCall(t) => runs[t].held = <<>>

\* a thread holds the read guard of the storage it wants to write
InPlace(t) == runs[t].pc = "input" /\ runs[t].input = runs[t].output

\* two threads each hold the read guard of the storage the other wants to write
Swapped(t, u) ==
    /\ t # u
    /\ runs[t].pc = "input" /\ runs[u].pc = "input"
    /\ runs[t].input = runs[u].output
    /\ runs[u].input = runs[t].output

Cycle == (\E t \in Thread : InPlace(t)) \/ (\E t, u \in Thread : Swapped(t, u))

====
